---------------------------- MODULE Spec2Model ----------------------------
(***************************************************************************)
(* mushu: the scene graph (Scene / SceneObject), the WebGL2 flow runtime   *)
(* (flow) and the ping-pong simulation (simulation plugin, WebGPU compute  *)
(* pipeline), as state machines.                                           *)
(*                                                                         *)
(*   SpecScene    Scene.add / Scene.remove / SceneObject.addChild /        *)
(*                SceneObject.removeChild                                  *)
(*   SpecRender   Scene.add, addChild, setPosition, visible, Scene.render  *)
(*   SpecFlow     flow(): use, go, stop and the requestAnimationFrame      *)
(*                loop against the host clock                              *)
(*   SpecPlugins  flow(): use, go, stop, hot, reset, destroy, the window   *)
(*                resize event and the loop, frame by frame                *)
(*   SpecSim      simulation(): init, resize, render; runComputePipeline   *)
(***************************************************************************)
EXTENDS Integers, Sequences, FiniteSets, TLC

\* ------------------------------------------------------------------------
\* Bounds
\* ------------------------------------------------------------------------
\* number of SceneObject instances ever constructed
MaxObjs == 3

\* number of scene-graph operations applied in one behaviour
MaxSceneOps == 5

\* plugins and functions handed to use() and hot() on one flow runtime
MaxPlugins == 3

\* host clock, in ticks of 50 ms
MaxTime == 3

\* calls of go() in one behaviour
MaxGo == 2

\* api calls and window events in one behaviour
MaxCalls == 4

\* requestAnimationFrame handles that can be outstanding at once
MaxRaf == 2

\* offscreen targets (framebuffer + texture) ever allocated
MaxTargets == 8

\* options.iterations of the simulation plugin
MaxIterations == 3

\* largest value of the counter a simulation step increments
MaxCount == 3

\* ModelLoader.load calls and ModelLoader.clear calls
MaxLoadCalls == 3
MaxClears == 1

\* OBJ text: v lines, vt and vn lines, f lines, vertices per f line
MaxV == 3
MaxVt == 1
MaxFaces == 1
MaxFaceLen == 4

\* Scene.use calls and window resize events on a Scene
MaxScenePlugins == 2
MaxResizes == 1

\* frames rendered by the gpuFlow loop
MaxGpuFrames == 3

\* ------------------------------------------------------------------------
\* Program constants
\* ------------------------------------------------------------------------
\* Math.min(ctx.time - lastTime, 0.1): 0.1 s = 2 ticks of 50 ms
DeltaCap == 2

\* simulation(options = {}): scale = 0.5 is the default; scales are counted
\* in halves
ScaleDen == 2

\* ------------------------------------------------------------------------
\* State
\* ------------------------------------------------------------------------
\* Scene, SceneObject
VARIABLES
  nextObj,      \* number of SceneObjects constructed so far
  objId,        \* SceneObject.id
  parent,       \* SceneObject.parent
  children,     \* SceneObject.children
  rootObjects,  \* Scene.rootObjects
  objects,      \* Scene._objects (the registry Map: id -> object, Null = no entry)
  destroyLog,   \* the SceneObject.destroy calls of the last Scene.remove, in order
  lastOp,       \* the last scene operation and what it was applied to
  sceneOps,     \* number of scene operations applied so far
  position,     \* SceneObject.position
  visible,      \* SceneObject.visible
  localMatrix,  \* SceneObject.localMatrix, column-major, 16 entries
  worldMatrix,  \* SceneObject.worldMatrix, column-major, 16 entries
  visited,      \* the objects the last Scene.render updated, in call order
  sceneGl,      \* Scene.gl is a WebGL2 context (FALSE: null, getContext gave none)
  typeErrors,   \* number of TypeErrors raised so far (a property of null
                \* read, a value that is not iterable iterated)
  initialized,  \* SceneObject._geometryInitialized, _materialInitialized
  nodeInits     \* per object: geometry initialisations done, material.init
                \* calls made, times a render pass has run on it

renderVars == <<position, visible, localMatrix, worldMatrix, visited,
                sceneGl, typeErrors, initialized, nodeInits>>

sceneVars == <<nextObj, objId, parent, children, rootObjects, objects,
               destroyLog, lastOp, sceneOps, renderVars>>

\* flow()
VARIABLES
  plugins,      \* the plugin array, in registration order
  running,      \* running
  animationId,  \* animationId (Null = null)
  lastTime,     \* lastTime of the loop closure
  ctxTime,      \* ctx.time
  ctxDelta,     \* ctx.delta
  now,          \* host clock
  rafQueue,     \* host: callbacks requested for the next animation frame
  firing,       \* host: callbacks of the current animation frame not yet run
  loopAt,       \* position of the running loop callback: 0 = none running,
                \* i = about to dispatch plugins[i], Len+1 = after the for loop
  initCount,    \* number of init(ctx) calls made on each plugin
  frameRenders, \* render calls made on each plugin in the current animation frame
  goCalls,      \* number of go() calls so far
  goAt,         \* host clock at the last go()
  restarted,    \* the last go() came after a stop() that followed a frame
  sinceGo,      \* loop callbacks begun since the last go() (counted up to 2)
  stopCalled,   \* stop() was called and go() has not been called since
  loopBeganStopped, \* the running loop callback began while stopCalled
  threw,        \* the last loop callback was ended by an exception of a hook
  nextPlugin,   \* number of values handed to use() and hot() so far
  kind,         \* what each of them is: "callback", "shader", "nullary"
  listening,    \* the window listeners of go() are registered
  calls,        \* the hook calls made by the last api call or event, in order
  lastCall,     \* the last api call or event, with its argument
  renderLog,    \* the plugins invoked by the current (or last) loop callback
  apiCalls      \* number of api calls and window events so far

flowVars == <<plugins, running, animationId, lastTime, ctxTime, ctxDelta,
              now, rafQueue, firing, loopAt, initCount, frameRenders,
              goCalls, goAt, restarted, sinceGo, stopCalled, loopBeganStopped, threw,
              nextPlugin, kind, listening, calls, lastCall, renderLog, apiCalls>>

\* simulation() plugin, runComputePipeline()
VARIABLES
  backend,      \* "webgl": simulation() under flow; "webgpu": runComputePipeline
  scaleNum,     \* options.scale / simScale, in halves
  iterations,   \* options.iterations
  canvasSize,   \* ctx.width, ctx.height (WebGPU: width, height)
  fboA, fboB,   \* simulation(): fboA, fboB
  texA, texB,   \* simulation(): texA, texB
  width,        \* simulation(): width, height as <<w, h>>, Undef before init
  simProgram,   \* simulation(): simProgram is not null
  renderProgram, \* simulation(): renderProgram is not null
  stateA, stateB, \* runComputePipeline: stateA, stateB
  simSize,      \* runComputePipeline: simWidth, simHeight
  simStarted,   \* go() has run
  nextTarget,   \* GPU: number of targets allocated so far
  targetSize,   \* GPU: the size each target was allocated with
  content,      \* GPU: the counter held by each target (0 = freshly allocated)
  passes,       \* the simulate passes of the last frame: target read, target
                \* written, value read, value held by the target written
  displayed,    \* the last display pass: target sampled and value seen
  lastSimOp,    \* the last operation: "none", "go", "resize", "frame"
  heldBefore,   \* the pair of targets held before the last resize event
  preFrame,     \* the targets in the read and the write role when the last frame began
  diagnostics,  \* the stages whose build failure console.error reported
  renderable    \* EXT_color_buffer_float: an RGBA16F texture can be drawn into

simVars == <<backend, scaleNum, iterations, canvasSize, fboA, fboB, texA,
             texB, width, simProgram, renderProgram, stateA, stateB, simSize,
             simStarted, nextTarget, targetSize, content, passes, displayed,
             lastSimOp, heldBefore, preFrame, diagnostics, renderable>>

\* ModelLoader
VARIABLES
  cache,        \* ModelLoader.cache: cacheKey -> model (Null = no entry)
  loadCalls,    \* the load() calls made: key, position, model resolved to
  loadModelCalls, \* per cacheKey: loadModel() calls since construction or clear()
  nextModel,    \* number of model objects built so far
  clears        \* number of clear() calls

loaderVars == <<cache, loadCalls, loadModelCalls, nextModel, clears>>

\* parseOBJ, loadOBJ
VARIABLES
  tempPositions, \* tempPositions.length
  tempUvs,      \* tempUvs.length
  tempNormals,  \* tempNormals.length
  vertexMap,    \* vertexMap: the face-vertex tokens in insertion order (token i -> i - 1)
  positions,    \* positions: per entry the index of tempPositions it was read from
  uvs,          \* uvs: per entry the index of tempUvs read, -1 for the default
  normals,      \* normals: per entry the index of tempNormals read, -1 for the default
  indices,      \* indices
  faceLog       \* per f line read: its number of vertices and of indices pushed

objVars == <<tempPositions, tempUvs, tempNormals, vertexMap, positions, uvs,
             normals, indices, faceLog>>

\* Scene.go / Scene.stop
VARIABLES
  sceneRunning, \* Scene._running
  scenePending, \* the frame callback Scene._animationLoop names is pending
  sceneLastTime, \* Scene.go: lastTime
  sceneTime,    \* Scene.ctx.time
  sceneDelta,   \* Scene.ctx.delta
  sceneFrame,   \* Scene.ctx.frame
  sceneGoCalls, \* number of Scene.go calls so far
  sceneRunFrames, \* frames dispatched since the last Scene.go that started a loop, up to 2
  sceneGap      \* ctx.time - lastTime as the last frame found it, before the cap

sceneLoopVars == <<sceneRunning, scenePending, sceneLastTime, sceneTime,
                   sceneDelta, sceneFrame, sceneGoCalls, sceneRunFrames,
                   sceneGap>>

\* Scene plugins and the listeners of a Scene
VARIABLES
  scenePlugins, \* Scene._plugins: the kind of each plugin, in registration order
  scenePluginCalls, \* the calls Scene has made on its plugins so far: <<hook, index>>
  sceneListeners, \* the listeners of _setupEventListeners are attached
  sceneResizes  \* number of window resize events delivered so far

stageVars == <<scenePlugins, scenePluginCalls, sceneListeners, sceneResizes>>

\* gpuFlow(): the asynchronous go() and stop()
VARIABLES
  gpuAt,        \* where the go() call in progress stands: "idle" (none made),
                \* "adapter", "device", "pipeline" (the await it is at), "returned"
  gpuRunning,   \* running
  gpuLoops,     \* loop callbacks requested with requestAnimationFrame and not yet run
  gpuFrames,    \* frames rendered so far
  gpuGoCalls,   \* number of go() calls so far
  gpuStopped    \* stop() has been called and go() has not been called since

gpuVars == <<gpuAt, gpuRunning, gpuLoops, gpuFrames, gpuGoCalls, gpuStopped>>

assetVars == <<loaderVars, objVars, sceneLoopVars, stageVars, gpuVars>>

vars == <<sceneVars, flowVars, simVars, assetVars>>

\* ------------------------------------------------------------------------
\* Generic helpers
\* ------------------------------------------------------------------------
\* Array.prototype.indexOf: first index of x in s, 0 when absent
IndexOf(s, x) ==
  IF \E i \in 1..Len(s) : s[i] = x
    THEN CHOOSE i \in 1..Len(s) : s[i] = x /\ \A j \in 1..(i-1) : s[j] # x
    ELSE 0

\* Array.prototype.splice(idx, 1)
RemoveAt(s, i) == SubSeq(s, 1, i-1) \o SubSeq(s, i+1, Len(s))

\* number of occurrences of x in s
Count(s, x) == Cardinality({i \in 1..Len(s) : s[i] = x})

Range(s) == {s[i] : i \in 1..Len(s)}

Min(a, b) == IF a < b THEN a ELSE b

\* ------------------------------------------------------------------------
\* Scene graph (Scene, SceneObject)
\* ------------------------------------------------------------------------
\* SceneObject instances, by identity; Null is JavaScript null
Obj == 1..MaxObjs
Null == 0

\* the id strings callers use; NoId is an absent options.parent
Ids == {"a", "b"}
NoId == "none"

Created == 1..nextObj

\* new Float32Array(16)
Zero16 == [i \in 1..16 |-> 0]

\* parentMatrix = null
NoMatrix == <<>>

\* the positions given to setPosition
Positions == {<<0, 0, 0>>, <<1, 0, 0>>, <<0, 2, 0>>}

\* SceneObject._updateLocalMatrix with rotation [0, 0, 0] and scale
\* [1, 1, 1], the values every object is constructed with:
\* Math.cos(0) = 1, Math.sin(0) = 0
UpdateLocalMatrix(pos) ==
  LET x == pos[1]  y == pos[2]  z == pos[3]
      sx == 1  sy == 1  sz == 1
      cx == 1  sx_ == 0
      cy == 1  sy_ == 0
      cz == 1  sz_ == 0
      r00 == cy * cz
      r01 == cy * sz_
      r02 == 0 - sy
      r10 == sx_ * sy * cz - cx * sz_
      r11 == sx_ * sy * sz_ + cx * cz
      r12 == sx_ * cy
      r20 == cx * sy * cz + sx_ * sz_
      r21 == cx * sy * sz_ - sx_ * cz
      r22 == cx * cy
  IN << r00 * sx, r01 * sx, r02 * sx, 0,
        r10 * sy, r11 * sy, r12 * sy, 0,
        r20 * sz, r21 * sz, r22 * sz, 0,
        x, y, z, 1 >>

\* SceneObject._updateWorldMatrix: entry 4c + r of the result is
\* b[r]*a[4c] + b[4+r]*a[4c+1] + b[8+r]*a[4c+2] + b[12+r]*a[4c+3]
\* (sequences are indexed from 1); a copy of a when b is null
UpdateWorldMatrix(a, b) ==
  IF b # NoMatrix
    THEN [i \in 1..16 |->
            LET c == (i - 1) \div 4
                r == (i - 1) % 4
            IN b[r + 1] * a[4 * c + 1] + b[4 + r + 1] * a[4 * c + 2]
               + b[8 + r + 1] * a[4 * c + 3] + b[12 + r + 1] * a[4 * c + 4]]
    ELSE a

InitScene ==
  /\ sceneOps = 0
  /\ nextObj = 0
  /\ objId = [o \in Obj |-> NoId]
  /\ parent = [o \in Obj |-> Null]
  /\ children = [o \in Obj |-> <<>>]
  /\ rootObjects = <<>>
  /\ objects = [i \in Ids |-> Null]
  /\ destroyLog = <<>>
  /\ lastOp = [op |-> "none", obj |-> Null, subtree |-> {}]
  /\ position = [o \in Obj |-> <<0, 0, 0>>]
  /\ visible = [o \in Obj |-> TRUE]
  /\ localMatrix = [o \in Obj |-> Zero16]
  /\ worldMatrix = [o \in Obj |-> Zero16]
  /\ visited = <<>>
  /\ sceneGl \in BOOLEAN
  /\ typeErrors = 0
  /\ initialized = [o \in Obj |-> [geometry |-> FALSE, material |-> FALSE]]
  /\ nodeInits = [o \in Obj |-> [geometry |-> 0, material |-> 0, renders |-> 0]]

\* SceneObject.removeChild on the pair (parent, children)
RemoveChildOp(par, ch, p, c) ==
  LET idx == IndexOf(ch[p], c) IN
  IF idx >= 1
    THEN [parent   |-> [par EXCEPT ![c] = Null],
          children |-> [ch EXCEPT ![p] = RemoveAt(ch[p], idx)]]
    ELSE [parent |-> par, children |-> ch]

\* SceneObject.addChild with this.children.push(child) left out
AddChildNoPush(par, ch, p, c) ==
  [parent |-> [par EXCEPT ![c] = p], children |-> ch]

\* SceneObject.addChild on the pair (parent, children)
AddChildOp(par, ch, p, c) ==
  LET s1 == IF par[c] # Null
              THEN RemoveChildOp(par, ch, par[c], c)
              ELSE [parent |-> par, children |-> ch]
  IN [parent   |-> [s1.parent EXCEPT ![c] = p],
      children |-> [s1.children EXCEPT ![p] = Append(@, c)]]

\* SceneObject.destroy: the destroy calls made, in call order
DestroySelfOnly(ch, o) == <<o>>

RECURSIVE DestroyCalls(_, _)

RECURSIVE DestroyChildren(_, _, _)
DestroyChildren(ch, s, i) ==
  IF i > Len(s) THEN <<>>
  ELSE DestroyCalls(ch, s[i]) \o DestroyChildren(ch, s, i + 1)

DestroyCalls(ch, o) == <<o>> \o DestroyChildren(ch, ch[o], 1)

\* the objects reachable from o over child lists (o included)
RECURSIVE Reach(_, _, _)
Reach(ch, seen, n) ==
  LET more == seen \cup UNION {Range(ch[x]) : x \in seen} IN
  IF n = 0 \/ more = seen THEN seen ELSE Reach(ch, more, n - 1)

Subtree(ch, o) == Reach(ch, {o}, MaxObjs)

\* one more operation, within the bound
SceneStep == sceneOps < MaxSceneOps /\ sceneOps' = sceneOps + 1

\* Scene.add(id, {parent: pid}): position, rotation, scale and visible take
\* the defaults of the SceneObject constructor
Add(id, pid) ==
  /\ SceneStep
  /\ UNCHANGED <<flowVars, simVars, assetVars>>
  /\ nextObj < MaxObjs
  /\ LET o   == nextObj + 1
         par == IF pid = NoId THEN Null ELSE objects[pid]
         p0  == [parent EXCEPT ![o] = par]
         s   == IF par # Null
                  THEN AddChildOp(p0, children, par, o)
                  ELSE [parent |-> p0, children |-> children]
     IN /\ nextObj' = o
        /\ objId' = [objId EXCEPT ![o] = id]
        /\ objects' = [objects EXCEPT ![id] = o]
        /\ parent' = s.parent
        /\ children' = s.children
        /\ rootObjects' = IF par # Null THEN rootObjects ELSE Append(rootObjects, o)
        /\ destroyLog' = <<>>
        /\ lastOp' = [op |-> "add", obj |-> Null, subtree |-> {}]
        /\ position' = [position EXCEPT ![o] = <<0, 0, 0>>]
        /\ visible' = [visible EXCEPT ![o] = TRUE]
        /\ localMatrix' = [localMatrix EXCEPT ![o] = UpdateLocalMatrix(<<0, 0, 0>>)]
        /\ worldMatrix' = [worldMatrix EXCEPT ![o] = Zero16]
        /\ UNCHANGED <<visited, sceneGl, typeErrors, initialized, nodeInits>>

\* Scene.remove applied to the object obj
RemoveObject(obj) ==
  LET s   == IF parent[obj] # Null
               THEN RemoveChildOp(parent, children, parent[obj], obj)
               ELSE [parent |-> parent, children |-> children]
      idx == IndexOf(rootObjects, obj)
  IN /\ parent' = s.parent
     /\ children' = s.children
     /\ rootObjects' = IF parent[obj] = Null /\ idx >= 1
                         THEN RemoveAt(rootObjects, idx) ELSE rootObjects
     /\ objects' = [objects EXCEPT ![objId[obj]] = Null]
     /\ destroyLog' = DestroyCalls(s.children, obj)
     /\ lastOp' = [op |-> "remove", obj |-> obj, subtree |-> Subtree(children, obj)]
     /\ UNCHANGED <<nextObj, objId>>

\* Scene.remove(id), id a string
Remove(id) ==
  /\ SceneStep
  /\ UNCHANGED <<flowVars, simVars, renderVars, assetVars>>
  /\ objects[id] # Null
  /\ RemoveObject(objects[id])

\* Scene.remove(obj), obj a SceneObject
RemoveByRef(o) ==
  /\ SceneStep
  /\ UNCHANGED <<flowVars, simVars, renderVars, assetVars>>
  /\ o \in Created
  /\ RemoveObject(o)

\* p.addChild(c) called by the application
AddChild(p, c) ==
  /\ SceneStep
  /\ UNCHANGED <<flowVars, simVars, renderVars, assetVars>>
  /\ p \in Created /\ c \in Created
  /\ LET s == AddChildOp(parent, children, p, c) IN
       /\ parent' = s.parent
       /\ children' = s.children
  /\ destroyLog' = <<>>
  /\ lastOp' = [op |-> "addChild", obj |-> Null, subtree |-> {}]
  /\ UNCHANGED <<nextObj, objId, rootObjects, objects>>

\* p.removeChild(c) called by the application
RemoveChild(p, c) ==
  /\ SceneStep
  /\ UNCHANGED <<flowVars, simVars, renderVars, assetVars>>
  /\ p \in Created /\ c \in Created
  /\ LET s == RemoveChildOp(parent, children, p, c) IN
       /\ parent' = s.parent
       /\ children' = s.children
  /\ destroyLog' = <<>>
  /\ lastOp' = [op |-> "removeChild", obj |-> Null, subtree |-> {}]
  /\ UNCHANGED <<nextObj, objId, rootObjects, objects>>

\* Scene.get(id)
Get(id) == objects[id]

NextScene ==
  \/ \E id \in Ids, pid \in Ids \cup {NoId} : Add(id, pid)
  \/ \E id \in Ids : Remove(id)
  \/ \E o \in Obj : RemoveByRef(o)
  \/ \E p \in Obj, c \in Obj : AddChild(p, c)
  \/ \E p \in Obj, c \in Obj : RemoveChild(p, c)

\* o.setPosition(pos)
SetPosition(o, pos) ==
  /\ SceneStep
  /\ UNCHANGED <<flowVars, simVars, assetVars>>
  /\ o \in Created
  /\ position' = [position EXCEPT ![o] = pos]
  /\ localMatrix' = [localMatrix EXCEPT ![o] = UpdateLocalMatrix(pos)]
  /\ destroyLog' = <<>>
  /\ lastOp' = [op |-> "setPosition", obj |-> Null, subtree |-> {}]
  /\ UNCHANGED <<nextObj, objId, parent, children, rootObjects, objects,
                 visible, worldMatrix, visited, sceneGl, typeErrors,
                 initialized, nodeInits>>

\* o.visible = v, assigned by the application
SetVisible(o, v) ==
  /\ SceneStep
  /\ UNCHANGED <<flowVars, simVars, assetVars>>
  /\ o \in Created
  /\ visible' = [visible EXCEPT ![o] = v]
  /\ destroyLog' = <<>>
  /\ lastOp' = [op |-> "setVisible", obj |-> Null, subtree |-> {}]
  /\ UNCHANGED <<nextObj, objId, parent, children, rootObjects, objects,
                 position, localMatrix, worldMatrix, visited, sceneGl,
                 typeErrors, initialized, nodeInits>>

\* SceneObject.render(ctx, parentMatrix) on o: the world matrices and the
\* objects updated so far are threaded through st
RECURSIVE RenderObject(_, _, _)

\* for (const child of s) child.render(ctx, pm), from the i-th child on
RECURSIVE RenderAll(_, _, _, _)
RenderAll(st, s, i, pm) ==
  IF i > Len(s) THEN st
  ELSE RenderAll(RenderObject(st, s[i], pm), s, i + 1, pm)

\* SceneObject.initMaterial(ctx) on o, a node that has a material with an
\* init hook
InitMaterialAlways(st, o) ==
  [st EXCEPT !.nodeInits[o].material = @ + 1, !.initialized[o].material = TRUE]

InitMaterial(st, o) ==
  IF st.initialized[o].material THEN st
  ELSE [st EXCEPT !.nodeInits[o].material = @ + 1,
                  !.initialized[o].material = TRUE]

\* SceneObject.initGeometry(ctx) on o, a node that has a geometry
InitGeometry(st, o) ==
  IF st.initialized[o].geometry THEN st
  ELSE [st EXCEPT !.nodeInits[o].geometry = @ + 1,
                  !.initialized[o].geometry = TRUE]

RenderObject(st, o, pm) ==
  IF ~visible[o] THEN st
  ELSE LET w == UpdateWorldMatrix(localMatrix[o], pm)
           st1 == [st EXCEPT !.world[o] = w, !.log = Append(st.log, o),
                             !.nodeInits[o].renders = @ + 1]
           st2 == InitGeometry(InitMaterial(st1, o), o)
       IN RenderAll(st2, children[o], 1, w)

\* the objects render reaches from the root list
FromRoots == UNION {Subtree(children, r) : r \in Range(rootObjects)}

\* no object that render reaches is its own descendant: the recursion of
\* SceneObject.render comes to an end
RenderReturnsNormally ==
  \A o \in FromRoots : o \notin Reach(children, Range(children[o]), MaxObjs)

\* Scene.render(): gl.clearColor(...) first, a TypeError when this.gl is
\* null; then the root objects are rendered in list order. On a child list
\* that leads back to an object the recursion does not return.
SceneRender ==
  /\ SceneStep
  /\ UNCHANGED <<flowVars, simVars, assetVars>>
  /\ RenderReturnsNormally
  /\ IF sceneGl
       THEN LET st == RenderAll([world |-> worldMatrix, log |-> <<>>,
                                initialized |-> initialized, nodeInits |-> nodeInits],
                               rootObjects, 1, NoMatrix)
            IN /\ worldMatrix' = st.world
               /\ visited' = st.log
               /\ initialized' = st.initialized
               /\ nodeInits' = st.nodeInits
               /\ UNCHANGED typeErrors
       ELSE /\ typeErrors' = typeErrors + 1
            /\ UNCHANGED <<worldMatrix, visited, initialized, nodeInits>>
  /\ destroyLog' = <<>>
  /\ lastOp' = [op |-> "render", obj |-> Null, subtree |-> {}]
  /\ UNCHANGED <<nextObj, objId, parent, children, rootObjects, objects,
                 position, visible, localMatrix, sceneGl>>

NextRender ==
  \/ \E id \in Ids, pid \in Ids \cup {NoId} : Add(id, pid)
  \/ \E p \in Obj, c \in Obj : AddChild(p, c)
  \/ \E o \in Obj, pos \in Positions : SetPosition(o, pos)
  \/ \E o \in Obj, v \in BOOLEAN : SetVisible(o, v)
  \/ SceneRender



\* ------------------------------------------------------------------------
\* Scene graph: claims
\* ------------------------------------------------------------------------
\* the parents whose child list holds c
Holders(c) == {p \in Created : c \in Range(children[p])}

\* the objects met by following parent references from o (o excluded)
RECURSIVE Ancestors(_, _)
Ancestors(o, n) ==
  IF n = 0 \/ parent[o] = Null THEN {}
  ELSE {parent[o]} \cup Ancestors(parent[o], n - 1)

\* C4: every node is in at most one parent's child list and at most once in
\* it, a node in a child list is not also in the root list, and its parent
\* reference is exactly the parent holding it.
C4_SingleOwner ==
  \A c \in Created :
    /\ Cardinality(Holders(c)) <= 1
    /\ \A p \in Holders(c) :
         /\ Count(children[p], c) = 1
         /\ parent[c] = p
         /\ c \notin Range(rootObjects)

\* C5: the graph is acyclic: following parent references from any node
\* never comes back to the node.
C5_Acyclic == \A o \in Created : o \notin Ancestors(o, MaxObjs)

\* C6: remove calls SceneObject.destroy exactly once for the removed node
\* and for each of its descendants, and for no other node.
C6_DestroyOncePerSubtreeNode ==
  lastOp.op = "remove" =>
    \A o \in Obj : Count(destroyLog, o) = (IF o \in lastOp.subtree THEN 1 ELSE 0)

\* a parent with two children was removed: three destroy calls
C6_Witness ==
  /\ lastOp.op = "remove"
  /\ Len(children[lastOp.obj]) = 2
  /\ Cardinality(lastOp.subtree) = 3
  /\ Len(destroyLog) = 3

\* C7: after remove, neither the removed node nor any of its descendants is
\* in the registry, and no node outside the removed subtree references a
\* removed node as its parent or as a child.
C7_RemovedAbsent ==
  lastOp.op = "remove" =>
    /\ \A i \in Ids : Get(i) \notin lastOp.subtree
    /\ \A n \in Created \ lastOp.subtree :
         /\ parent[n] \notin lastOp.subtree
         /\ Range(children[n]) \cap lastOp.subtree = {}


\* C18: node ids are unique: after an add, at most one node of any id is
\* reachable from the root list, and it is the node get(id) returns.
C18_UniqueIds ==
  lastOp.op = "add" =>
    \A id \in Ids :
      LET ns == {o \in FromRoots : objId[o] = id}
      IN Cardinality(ns) <= 1 /\ ns \subseteq {Get(id)}

\* C19: add(id, {parent}) makes one new node; if the parent given resolves
\* to a registered node, the new node is appended to that node's child list,
\* has it as parent and the root list is as it was; otherwise the new node
\* is appended to the root list with a null parent; in both cases get(id)
\* is the new node afterwards.
C19_AddPlacesNode ==
  [][ \A id \in Ids, pid \in Ids \cup {NoId} :
        Add(id, pid) =>
          LET o == nextObj + 1
              par == IF pid = NoId THEN Null ELSE objects[pid]
          IN /\ nextObj' = o
             /\ objId'[o] = id
             /\ objects'[id] = o
             /\ IF par # Null
                  THEN /\ children'[par] = Append(children[par], o)
                       /\ parent'[o] = par
                       /\ rootObjects' = rootObjects
                       /\ o \notin Range(rootObjects')
                  ELSE /\ rootObjects' = Append(rootObjects, o)
                       /\ parent'[o] = Null
                       /\ \A p \in Created : o \notin Range(children'[p]) ]_vars

\* a node was added under a registered parent that already had a child
C19_Witness ==
  /\ lastOp.op = "add"
  /\ parent[nextObj] # Null
  /\ Len(children[parent[nextObj]]) = 2
  /\ children[parent[nextObj]][2] = nextObj
  /\ Get(objId[nextObj]) = nextObj

\* the product m * n of two column-major 4x4 matrices
MatMul(m, n) ==
  [i \in 1..16 |->
     LET c == (i - 1) \div 4
         r == (i - 1) % 4
         S[k \in 0..4] == IF k = 0 THEN 0
                          ELSE S[k - 1] + m[4 * (k - 1) + r + 1] * n[4 * c + k]
     IN S[4]]

\* the translation of a column-major matrix
Translation(m) == <<m[13], m[14], m[15]>>

\* C20: after render(), every node it visited has worldMatrix = its
\* parent's worldMatrix * its localMatrix, or = its localMatrix if it has no
\* parent; a child at [0,2,0] under a root at [1,0,0] has the world
\* translation [1,2,0].
C20_WorldMatrix ==
  lastOp.op = "render" =>
    \A o \in Range(visited) :
      /\ worldMatrix[o] = IF parent[o] = Null THEN localMatrix[o]
                          ELSE MatMul(worldMatrix[parent[o]], localMatrix[o])
      /\ ( /\ parent[o] # Null
           /\ parent[parent[o]] = Null
           /\ position[o] = <<0, 2, 0>>
           /\ position[parent[o]] = <<1, 0, 0>> )
         => Translation(worldMatrix[o]) = <<1, 2, 0>>

\* C21: render() skips the whole subtree of an invisible node: after a
\* render pass neither an invisible node nor any of its descendants,
\* whatever the descendant's own visible flag, had its world matrix updated,
\* its geometry or material initialised, bound or drawn in that pass.
C21_InvisibleSubtreeSkipped ==
  lastOp.op = "render" =>
    \A o \in Created :
      ~visible[o] => \A d \in Subtree(children, o) : d \notin Range(visited)

\* C31: across any number of render() calls each node's geometry is
\* initialised exactly once and its material's init is invoked exactly once
\* for that node, under the already-initialised flags: never a second time,
\* and once as soon as a render pass has reached the node.
C31_LazyInitOnce ==
  \A o \in Created :
    /\ nodeInits[o].geometry <= 1
    /\ nodeInits[o].material <= 1
    /\ initialized[o].geometry <=> nodeInits[o].geometry = 1
    /\ initialized[o].material <=> nodeInits[o].material = 1
    /\ nodeInits[o].renders >= 1 =>
         (nodeInits[o].geometry = 1 /\ nodeInits[o].material = 1)

\* a node has been rendered three times and initialised once
C31_Witness ==
  \E o \in Created :
    /\ nodeInits[o].renders >= 3
    /\ nodeInits[o].geometry = 1
    /\ nodeInits[o].material = 1

\* C26: when WebGL2 is absent no scene instance with a null context is
\* handed to the caller, and no later operation (add, render, ...) raises
\* on the null device or context handle.
C26_NoNullHandleCrash == typeErrors = 0

\* ------------------------------------------------------------------------
\* Flow runtime (flow): plugin list, use / go / stop / hot / reset /
\* destroy, requestAnimationFrame loop
\* ------------------------------------------------------------------------
Plugin == 1..MaxPlugins
RafId == 1..MaxRaf

\* what is registered: "callback" is a function declaring the ctx parameter,
\* function callback(ctx) {...}; "shader" is an object
\* { name: 'shader', init, resize, render, destroy }
Kinds == {"callback", "shader"}

\* what use() can be handed besides: a function declaring no parameter
ArgKinds == Kinds \cup {"nullary"}

\* what a function declaring no parameter returns when use() calls it
Results == Kinds \cup {"undefined"}

\* the names hot() is called with; no plugin is named "absent"
HotNames == Kinds \cup {"absent"}

NoCall == [op |-> "none", arg |-> Null, name |-> ""]

InitFlow ==
  /\ plugins = <<>>
  /\ running = FALSE
  /\ animationId = Null
  /\ lastTime = 0
  /\ ctxTime = 0
  /\ ctxDelta = 0
  /\ now = 0
  /\ rafQueue = <<>>
  /\ firing = <<>>
  /\ loopAt = 0
  /\ initCount = [p \in Plugin |-> 0]
  /\ frameRenders = [p \in Plugin |-> 0]
  /\ goCalls = 0
  /\ goAt = 0
  /\ restarted = FALSE
  /\ sinceGo = 0
  /\ stopCalled = FALSE
  /\ loopBeganStopped = FALSE
  /\ threw = FALSE
  /\ nextPlugin = 0
  /\ kind = [p \in Plugin |-> "none"]
  /\ listening = FALSE
  /\ calls = <<>>
  /\ lastCall = NoCall
  /\ renderLog = <<>>
  /\ apiCalls = 0

\* the host is between tasks: application code may call the api
Idle == loopAt = 0 /\ firing = <<>>

\* handles the host may hand out: none that is pending or still held
FreeRaf == {i \in RafId : i \notin Range(rafQueue) /\ i \notin Range(firing)
                          /\ i # animationId}
NewRaf == CHOOSE i \in FreeRaf : \A j \in FreeRaf : i <= j

\* one more api call or window event
ApiStep == apiCalls < MaxCalls /\ apiCalls' = apiCalls + 1

\* s without the entries equal to x
Without(s, x) == SelectSeq(s, LAMBDA e : e # x)

\* plugin.name
NameOf(kd, p) == kd[p]

\* plugin.init / plugin.resize / plugin.render / plugin.destroy is defined:
\* a "shader" object defines the four hooks, a function none of them
HasHook(kd, p, hook) == kd[p] = "shader"

\* for (const plugin of ps) { if (plugin.hook) plugin.hook(ctx); } with the
\* calls listed in reverse
RECURSIVE HookCallsReversed(_, _, _)
HookCallsReversed(kd, ps, hook) ==
  IF ps = <<>> THEN <<>>
  ELSE HookCallsReversed(kd, Tail(ps), hook)
       \o (IF HasHook(kd, Head(ps), hook) THEN << <<hook, Head(ps)>> >> ELSE <<>>)

\* for (const plugin of ps) { if (plugin.hook) plugin.hook(ctx); }: the
\* calls made, in order
RECURSIVE HookCalls(_, _, _)
HookCalls(kd, ps, hook) ==
  IF ps = <<>> THEN <<>>
  ELSE (IF HasHook(kd, Head(ps), hook) THEN << <<hook, Head(ps)>> >> ELSE <<>>)
       \o HookCalls(kd, Tail(ps), hook)

\* the init calls go() makes, counted on each plugin
InitAll(cnt, ps) ==
  [p \in Plugin |-> cnt[p] + Count(HookCalls(kind, ps, "init"), <<"init", p>>)]

\* ctx.delta = Math.min(ctx.time - lastTime, 0.1)
DeltaUncapped(t, lt) == t - lt

Delta(t, lt) == Min(t - lt, DeltaCap)

\* use() pushing its argument whatever it is
PushedAlways(k, res, arg) == arg

\* what use(plugin) pushes, plugin = arg of kind k: the result of plugin()
\* (the next value, arg + 1; nothing when it is undefined) if plugin is a
\* function with plugin.length === 0, plugin itself otherwise
Pushed(k, res, arg) ==
  IF k # "nullary" THEN arg
  ELSE IF res # "undefined" THEN arg + 1 ELSE Null

\* api.use(plugin), plugin of kind k; res is what plugin() returns when
\* use() calls it
Use(k, res) ==
  /\ UNCHANGED <<sceneVars, simVars, assetVars>>
  /\ Idle
  /\ ApiStep
  /\ k # "nullary" => res = "undefined"
  /\ LET arg == nextPlugin + 1
         called == k = "nullary"
         pushed == Pushed(k, res, arg)
     IN /\ (IF pushed = Null THEN arg ELSE pushed) <= MaxPlugins
        /\ nextPlugin' = IF pushed = Null THEN arg ELSE pushed
        /\ kind' = IF pushed \in {Null, arg} THEN [kind EXCEPT ![arg] = k]
                   ELSE [kind EXCEPT ![arg] = k, ![pushed] = res]
        /\ plugins' = IF pushed = Null THEN plugins ELSE Append(plugins, pushed)
        /\ calls' = IF called THEN << <<"call", arg>> >> ELSE <<>>
        /\ lastCall' = [op |-> "use", arg |-> arg, name |-> ""]
  /\ UNCHANGED <<running, animationId, lastTime, ctxTime, ctxDelta,
                 now, rafQueue, firing, loopAt, initCount, frameRenders, goCalls, goAt,
                 restarted, sinceGo, stopCalled, loopBeganStopped, threw,
                 listening, renderLog>>

\* api.go() / api.start(): resize(), the listeners, init on each plugin,
\* the first requestAnimationFrame. The listeners write ctx.width,
\* ctx.height, ctx.aspect and the mouse fields; resize() calls the resize
\* hooks.
Go ==
  /\ UNCHANGED <<sceneVars, simVars, assetVars>>
  /\ Idle
  /\ ApiStep
  /\ FreeRaf # {}
  /\ goCalls < MaxGo
  /\ goCalls' = goCalls + 1
  /\ calls' = HookCalls(kind, plugins, "resize") \o HookCalls(kind, plugins, "init")
  /\ listening' = TRUE
  /\ initCount' = InitAll(initCount, plugins)
  /\ running' = TRUE
  /\ animationId' = NewRaf
  /\ rafQueue' = Append(rafQueue, NewRaf)
  /\ goAt' = now
  /\ restarted' = (stopCalled /\ goCalls >= 1 /\ lastTime > 0)
  /\ sinceGo' = 0
  /\ stopCalled' = FALSE
  /\ threw' = FALSE
  /\ lastCall' = [op |-> "go", arg |-> Null, name |-> ""]
  /\ UNCHANGED <<plugins, lastTime, ctxTime, ctxDelta, now, firing,
                 loopAt, frameRenders, loopBeganStopped, nextPlugin, kind,
                 renderLog>>

\* the assignments of api.stop()
StopEffect ==
  /\ running' = FALSE
  /\ animationId' = Null
  /\ rafQueue' = IF animationId # Null THEN Without(rafQueue, animationId)
                 ELSE rafQueue
  /\ firing' = IF animationId # Null THEN Without(firing, animationId)
               ELSE firing
  /\ stopCalled' = TRUE

\* api.stop() called by the application
Stop ==
  /\ UNCHANGED <<sceneVars, simVars, assetVars>>
  /\ Idle
  /\ ApiStep
  /\ StopEffect
  /\ threw' = FALSE
  /\ calls' = <<>>
  /\ lastCall' = [op |-> "stop", arg |-> Null, name |-> ""]
  /\ UNCHANGED <<plugins, lastTime, ctxTime, ctxDelta, now, loopAt,
                 initCount, frameRenders, goCalls, goAt, restarted, sinceGo,
                 loopBeganStopped, nextPlugin, kind, listening, renderLog>>

\* plugins.findIndex(p => p.name === name), taking the last match
FindLastIndex(kd, ps, name) ==
  IF \E i \in 1..Len(ps) : NameOf(kd, ps[i]) = name
    THEN CHOOSE i \in 1..Len(ps) :
           /\ NameOf(kd, ps[i]) = name
           /\ \A j \in (i+1)..Len(ps) : NameOf(kd, ps[j]) # name
    ELSE 0

\* plugins.findIndex(p => p.name === name): the first match, 0 for -1
FindIndex(kd, ps, name) ==
  IF \E i \in 1..Len(ps) : NameOf(kd, ps[i]) = name
    THEN CHOOSE i \in 1..Len(ps) :
           /\ NameOf(kd, ps[i]) = name
           /\ \A j \in 1..(i-1) : NameOf(kd, ps[j]) # name
    ELSE 0

\* api.hot(name, newPlugin), newPlugin of kind k
Hot(name, k) ==
  /\ UNCHANGED <<sceneVars, simVars, assetVars>>
  /\ Idle
  /\ ApiStep
  /\ nextPlugin < MaxPlugins
  /\ LET new == nextPlugin + 1
         kd == [kind EXCEPT ![new] = k]
         idx == FindIndex(kind, plugins, name)
     IN /\ nextPlugin' = new
        /\ kind' = kd
        /\ lastCall' = [op |-> "hot", arg |-> new, name |-> name]
        /\ IF idx >= 1
             THEN /\ calls' = HookCalls(kd, <<plugins[idx]>>, "destroy")
                              \o HookCalls(kd, <<new>>, "init")
                  /\ plugins' = [plugins EXCEPT ![idx] = new]
                  /\ initCount' = [initCount EXCEPT ![new] =
                                     @ + Len(HookCalls(kd, <<new>>, "init"))]
             ELSE /\ calls' = <<>>
                  /\ UNCHANGED <<plugins, initCount>>
  /\ UNCHANGED <<running, animationId, lastTime, ctxTime, ctxDelta,
                 now, rafQueue, firing, loopAt, frameRenders, goCalls, goAt,
                 restarted, sinceGo, stopCalled, loopBeganStopped, threw,
                 listening, renderLog>>

\* api.reset() with plugins.length = 0 left out
ResetKeepsList ==
  /\ calls' = HookCalls(kind, plugins, "destroy")
  /\ plugins' = plugins

\* the assignments of api.reset()
ResetEffect ==
  /\ calls' = HookCalls(kind, plugins, "destroy")
  /\ plugins' = <<>>

\* api.reset() called by the application
Reset ==
  /\ UNCHANGED <<sceneVars, simVars, assetVars>>
  /\ Idle
  /\ ApiStep
  /\ ResetEffect
  /\ lastCall' = [op |-> "reset", arg |-> Null, name |-> ""]
  /\ UNCHANGED <<running, animationId, lastTime, ctxTime, ctxDelta,
                 now, rafQueue, firing, loopAt, initCount, frameRenders,
                 goCalls, goAt, restarted, sinceGo, stopCalled,
                 loopBeganStopped, threw, nextPlugin, kind, listening,
                 renderLog>>

\* api.destroy(): api.stop(); api.reset(); the listeners are removed
Destroy ==
  /\ UNCHANGED <<sceneVars, simVars, assetVars>>
  /\ Idle
  /\ ApiStep
  /\ StopEffect
  /\ ResetEffect
  /\ listening' = FALSE
  /\ threw' = FALSE
  /\ lastCall' = [op |-> "destroy", arg |-> Null, name |-> ""]
  /\ UNCHANGED <<lastTime, ctxTime, ctxDelta, now, loopAt, initCount,
                 frameRenders, goCalls, goAt, restarted, sinceGo,
                 loopBeganStopped, nextPlugin, kind, renderLog>>

\* host: the window is resized; the event reaches resize() while go() has
\* registered it and destroy() has not removed it
WindowResize ==
  /\ UNCHANGED <<sceneVars, simVars, assetVars>>
  /\ Idle
  /\ ApiStep
  /\ calls' = IF listening THEN HookCalls(kind, plugins, "resize") ELSE <<>>
  /\ lastCall' = [op |-> "resize", arg |-> Null, name |-> ""]
  /\ UNCHANGED <<plugins, running, animationId, lastTime, ctxTime, ctxDelta,
                 now, rafQueue, firing, loopAt, initCount, frameRenders,
                 goCalls, goAt, restarted, sinceGo, stopCalled,
                 loopBeganStopped, threw, nextPlugin, kind, listening,
                 renderLog>>

\* time passes without an animation frame
Elapse ==
  /\ UNCHANGED <<sceneVars, simVars, apiCalls, assetVars>>
  /\ Idle
  /\ now < MaxTime
  /\ now' = now + 1
  /\ UNCHANGED <<plugins, running, animationId, lastTime, ctxTime, ctxDelta,
                 rafQueue, firing, loopAt, initCount, frameRenders,
                 goCalls, goAt, restarted, sinceGo, stopCalled, loopBeganStopped, threw,
                 nextPlugin, kind, listening, calls, lastCall, renderLog>>

\* host: the next animation frame: every callback requested so far is due
AnimationFrame ==
  /\ UNCHANGED <<sceneVars, simVars, apiCalls, assetVars>>
  /\ Idle
  /\ rafQueue # <<>>
  /\ now < MaxTime
  /\ now' = now + 1
  /\ firing' = rafQueue
  /\ rafQueue' = <<>>
  /\ frameRenders' = [p \in Plugin |-> 0]
  /\ UNCHANGED <<plugins, running, animationId, lastTime, ctxTime, ctxDelta,
                 loopAt, initCount, goCalls, goAt, restarted, sinceGo,
                 stopCalled, loopBeganStopped, threw,
                 nextPlugin, kind, listening, calls, lastCall, renderLog>>

\* loop(t), up to the for loop
LoopBegin ==
  /\ UNCHANGED <<sceneVars, simVars, apiCalls, assetVars>>
  /\ loopAt = 0
  /\ firing # <<>>
  /\ firing' = Tail(firing)
  /\ ctxTime' = now
  /\ ctxDelta' = Delta(now, lastTime)
  /\ lastTime' = now
  /\ loopAt' = 1
  /\ sinceGo' = Min(sinceGo + 1, 2)
  /\ loopBeganStopped' = stopCalled
  /\ threw' = FALSE
  /\ renderLog' = <<>>
  /\ UNCHANGED <<plugins, running, animationId, now, rafQueue, initCount,
                 frameRenders, goCalls, goAt, restarted, stopCalled,
                 nextPlugin, kind, listening, calls, lastCall>>

\* for (const plugin of plugins) taken from the end of the array
PluginAtReversed(ps, i) == ps[Len(ps) + 1 - i]

\* for (const plugin of plugins): the plugin of the i-th iteration
PluginAt(ps, i) == ps[i]

\* loop: plugin(ctx) or plugin.render(ctx) is called on the plugin of
\* iteration loopAt
RenderCalled ==
  /\ loopAt \in 1..Len(plugins)
  /\ frameRenders' = [frameRenders EXCEPT ![PluginAt(plugins, loopAt)] = @ + 1]
  /\ renderLog' = Append(renderLog, PluginAt(plugins, loopAt))

\* the render hook returns
RenderReturns ==
  /\ UNCHANGED <<sceneVars, simVars, apiCalls, assetVars>>
  /\ RenderCalled
  /\ loopAt' = loopAt + 1
  /\ UNCHANGED <<plugins, running, animationId, lastTime, ctxTime, ctxDelta,
                 now, rafQueue, firing, initCount, goCalls, goAt, restarted,
                 sinceGo, stopCalled, loopBeganStopped, threw,
                 nextPlugin, kind, listening, calls, lastCall>>

\* the render hook calls api.stop() and returns
RenderCallsStop ==
  /\ UNCHANGED <<sceneVars, simVars, apiCalls, assetVars>>
  /\ RenderCalled
  /\ StopEffect
  /\ loopAt' = loopAt + 1
  /\ UNCHANGED <<plugins, lastTime, ctxTime, ctxDelta, now,
                 initCount, goCalls, goAt, restarted, sinceGo, loopBeganStopped, threw,
                 nextPlugin, kind, listening, calls, lastCall>>

\* the render hook throws and loop catches it: the for loop goes on
RenderThrowsCaught ==
  /\ UNCHANGED <<sceneVars, simVars, apiCalls, assetVars>>
  /\ RenderCalled
  /\ loopAt' = loopAt + 1
  /\ threw' = TRUE
  /\ UNCHANGED <<plugins, running, animationId, lastTime, ctxTime, ctxDelta,
                 now, rafQueue, firing, initCount, goCalls, goAt, restarted,
                 sinceGo, stopCalled, loopBeganStopped,
                 nextPlugin, kind, listening, calls, lastCall>>

\* the render hook throws: the exception leaves loop
RenderThrows ==
  /\ UNCHANGED <<sceneVars, simVars, apiCalls, assetVars>>
  /\ RenderCalled
  /\ loopAt' = 0
  /\ threw' = TRUE
  /\ UNCHANGED <<plugins, running, animationId, lastTime, ctxTime, ctxDelta,
                 now, rafQueue, firing, initCount, goCalls, goAt, restarted,
                 sinceGo, stopCalled, loopBeganStopped,
                 nextPlugin, kind, listening, calls, lastCall>>

\* loop, after the for loop (the mouse velocity decays):
\* if (running) animationId = requestAnimationFrame(loop)
LoopEnd ==
  /\ UNCHANGED <<sceneVars, simVars, apiCalls, assetVars>>
  /\ loopAt = Len(plugins) + 1
  /\ loopAt' = 0
  /\ IF running
       THEN /\ FreeRaf # {}
            /\ animationId' = NewRaf
            /\ rafQueue' = Append(rafQueue, NewRaf)
       ELSE UNCHANGED <<animationId, rafQueue>>
  /\ UNCHANGED <<plugins, running, lastTime, ctxTime, ctxDelta, now,
                 firing, initCount, frameRenders, goCalls, goAt, restarted, sinceGo,
                 stopCalled, loopBeganStopped, threw,
                 nextPlugin, kind, listening, calls, lastCall, renderLog>>

NextPlugins ==
  \/ \E k \in ArgKinds, res \in Results : Use(k, res)
  \/ Go
  \/ Stop
  \/ \E name \in HotNames, k \in Kinds : Hot(name, k)
  \/ Reset
  \/ Destroy
  \/ WindowResize
  \/ AnimationFrame
  \/ LoopBegin
  \/ RenderReturns
  \/ RenderThrows
  \/ LoopEnd

NextFlow ==
  \/ \E k \in ArgKinds, res \in Results : Use(k, res)
  \/ Go
  \/ Stop
  \/ Elapse
  \/ AnimationFrame
  \/ LoopBegin
  \/ RenderReturns
  \/ RenderCallsStop
  \/ RenderThrows
  \/ LoopEnd


\* ------------------------------------------------------------------------
\* Flow runtime: claims
\* ------------------------------------------------------------------------
\* C1: go() on a running scheduler is a no-op: no init hook is invoked again
\* and no further frame callback is scheduled, so that every animation frame
\* dispatches each plugin's render hook at most once.
C1_GoWhileRunningNoOp ==
  [][(running /\ Go) => (initCount' = initCount /\ rafQueue' = rafQueue)]_vars

\* C2: the first frame after a restart (stop() then go()) computes its delta
\* from the instant of that go(), not from the last frame before stop().
C2_RestartBaseline ==
  (restarted /\ sinceGo = 1) => ctxDelta = Min(ctxTime - goAt, DeltaCap)

\* C3: after a render hook has thrown while the scheduler is running, the
\* next frame is still scheduled.
C3_NextFrameAfterThrow ==
  (Idle /\ threw /\ running) => rafQueue # <<>>

\* C10: no render hook is invoked in a frame that begins after stop() and
\* before the next go().
C10_NoRenderAfterStop == ~(loopBeganStopped /\ loopAt >= 2)

\* the step is the api call (or window event) op
Called(op) == lastCall'.op = op /\ apiCalls' = apiCalls + 1

\* C11: in every frame the render hooks are invoked in plugin registration
\* order (the plugins invoked so far by a running loop callback are the
\* first entries of the plugin list, in list order), and no operation
\* changes the relative order of two plugins that stay registered.
C11_RegistrationOrder ==
  [][ /\ \A p, q \in Range(plugins) \cap Range(plugins') :
           IndexOf(plugins, p) < IndexOf(plugins, q)
             => IndexOf(plugins', p) < IndexOf(plugins', q)
      /\ loopAt' # 0 => renderLog' = SubSeq(plugins', 1, loopAt' - 1) ]_vars

\* two plugins have been invoked by the running loop callback, the first of
\* them one that hot() put in the place of another
C11_Witness ==
  /\ loopAt # 0
  /\ Len(renderLog) >= 2
  /\ lastCall.op = "hot"
  /\ renderLog[1] = lastCall.arg

\* the init calls among cs
InitsOf(cs) == SelectSeq(cs, LAMBDA c : c[1] = "init")

\* C12: go() / start() calls init exactly once on every registered plugin
\* that has an init hook, on no other, in registration order, and no render
\* hook is invoked before go() has returned: the first frame is only
\* requested by it.
C12_InitOnceInOrderBeforeRender ==
  [][ Called("go") =>
        LET inits == InitsOf(calls')
        IN /\ \A p \in Range(plugins) :
                Count(inits, <<"init", p>>) = IF HasHook(kind, p, "init") THEN 1 ELSE 0
           /\ \A i \in 1..Len(inits) : inits[i][2] \in Range(plugins)
           /\ \A i, j \in 1..Len(inits) :
                i < j => IndexOf(plugins, inits[i][2]) < IndexOf(plugins, inits[j][2])
           /\ renderLog' = renderLog /\ frameRenders' = frameRenders
           /\ loopAt' = 0 /\ firing' = <<>>
           /\ rafQueue' = Append(rafQueue, animationId') ]_vars

\* go() has initialised two plugins with an init hook, skipped a callback,
\* and a frame has invoked a plugin since
C12_Witness ==
  /\ lastCall.op = "go"
  /\ Len(InitsOf(calls)) >= 2
  /\ \E p \in Range(plugins) : kind[p] = "callback"
  /\ renderLog # <<>>

C14_HotReplacesInPlace ==
  [][ Called("hot") =>
        LET new == lastCall'.arg
            matches == {i \in 1..Len(plugins) :
                          NameOf(kind, plugins[i]) = lastCall'.name}
        IN matches # {} =>
             \E idx \in matches :
                LET old == plugins[idx]
                    d == IF HasHook(kind, old, "destroy") THEN 1 ELSE 0
                    n == IF HasHook(kind', new, "init") THEN 1 ELSE 0
                IN /\ \A j \in matches : idx <= j
                   /\ plugins' = [plugins EXCEPT ![idx] = new]
                   /\ Count(calls', <<"destroy", old>>) = d
                   /\ Count(calls', <<"init", new>>) = n
                   /\ Len(calls') = d + n
                   /\ n = 1 => calls'[Len(calls')] = <<"init", new>> ]_vars

\* hot() has replaced the first of two plugins of one name, destroying it
\* and initialising its replacement
C14_Witness ==
  /\ lastCall.op = "hot"
  /\ Len(calls) = 2
  /\ Len(plugins) >= 2
  /\ plugins[1] = lastCall.arg
  /\ NameOf(kind, plugins[2]) = lastCall.name

\* C15: an error raised by a render hook during a frame is not caught: it
\* ends the loop callback, which has invoked the plugins up to the failing
\* one and no plugin registered after it, and which requests no next frame;
\* no plugin is invoked until another loop callback begins.
C15_ThrowLeavesFrame ==
  [][ /\ (~threw /\ threw') =>
           /\ loopAt' = 0
           /\ renderLog' = SubSeq(plugins, 1, loopAt)
           /\ plugins' = plugins
           /\ rafQueue' = rafQueue
      /\ (loopAt = 0 /\ loopAt' = 0) => renderLog' = renderLog ]_vars

\* a render hook has thrown and a plugin registered after it was not invoked
C15_Witness ==
  /\ threw
  /\ loopAt = 0
  /\ renderLog # <<>>
  /\ Len(renderLog) < Len(plugins)
  /\ lastCall.op = "go"

\* C16: destroy() leaves the scheduler idle: not running, no frame callback
\* pending, the plugin list empty, the listeners released.
C16_DestroyLeavesIdle ==
  lastCall.op = "destroy" =>
    /\ ~running
    /\ animationId = Null
    /\ rafQueue = <<>>
    /\ firing = <<>>
    /\ plugins = <<>>
    /\ ~listening

\* C17: reset() calls destroy exactly once on every registered plugin that
\* has a destroy hook, on no other, and leaves the plugin list empty; the
\* frames that follow it invoke no plugin.
C17_ResetDestroysAndEmpties ==
  [][ /\ Called("reset") =>
           /\ plugins' = <<>>
           /\ \A p \in Range(plugins) :
                Count(calls', <<"destroy", p>>) = IF HasHook(kind, p, "destroy") THEN 1 ELSE 0
           /\ Len(calls') = Cardinality({p \in Range(plugins) : HasHook(kind, p, "destroy")})
      /\ (lastCall'.op = "reset" /\ loopAt' # 0) => renderLog' = <<>> ]_vars

\* reset() has destroyed a plugin while running and a frame has begun since
C17_Witness ==
  /\ lastCall.op = "reset"
  /\ calls # <<>>
  /\ running
  /\ loopAt = 1

\* C33: no plugin's render or resize hook is invoked before that plugin's
\* init hook has been invoked, for any sequence of use, go, stop, hot and
\* resize events, plugins registered after go() and the resize() inside go()
\* included.
C33_InitBeforeRenderResize ==
  [][ /\ (apiCalls' = apiCalls + 1) =>
           \A i \in 1..Len(calls') :
             (calls'[i][1] = "resize" /\ HasHook(kind', calls'[i][2], "init")) =>
               \/ initCount[calls'[i][2]] >= 1
               \/ \E j \in 1..(i - 1) : calls'[j] = <<"init", calls'[i][2]>>
      /\ (loopAt \in 1..Len(plugins) /\ renderLog' # renderLog) =>
           (HasHook(kind, PluginAt(plugins, loopAt), "init") =>
              initCount[PluginAt(plugins, loopAt)] >= 1) ]_vars

\* C34: for each plugin the init and destroy calls alternate, starting with
\* init: init is never called a second time without a destroy in between
\* (a plugin that was destroyed has left the list for good), and destroy is
\* never called on a plugin whose init was not called.
C34_InitDestroyAlternate ==
  [][ /\ \A p \in Plugin : initCount'[p] <= 1
      /\ (apiCalls' = apiCalls + 1) =>
           \A i \in 1..Len(calls') :
             (calls'[i][1] = "destroy" /\ HasHook(kind, calls'[i][2], "init")) =>
               initCount[calls'[i][2]] >= 1 ]_vars

\* C35: at any moment at most one frame callback of the scheduler is
\* pending, for any sequence of stop and go calls, calls made from inside a
\* render hook included, so that one frame-clock tick runs the loop (and so
\* the plugin list) at most once.
C35_OneFramePending ==
  /\ Len(rafQueue) <= 1
  /\ Len(firing) <= 1

\* ------------------------------------------------------------------------
\* Ping-pong simulation: simulation() plugin (WebGL2), runComputePipeline
\* (WebGPU)
\* ------------------------------------------------------------------------
Target == 1..MaxTargets
Undef == <<0 - 1, 0 - 1>>

\* getBoundingClientRect() * dpr, the sizes the canvas takes
CanvasSizes == {<<2, 2>>, <<3, 2>>, <<4, 4>>}

\* Math.floor(x * scale)
Floor(x, num) == (x * num) \div ScaleDen

ScaledSize(sz, num) == <<Floor(sz[1], num), Floor(sz[2], num)>>

\* one simulate step on the value sampled: the embedded counter, incremented
Step(v) == v + 1

InitSim ==
  /\ backend \in {"webgl", "webgpu"}
  /\ scaleNum \in {1, 2}
  /\ iterations \in 1..MaxIterations
  /\ backend = "webgpu" => iterations = 1
  /\ canvasSize = <<0, 0>>
  /\ fboA = Null /\ fboB = Null /\ texA = Null /\ texB = Null
  /\ width = Undef
  /\ simProgram = FALSE
  /\ renderProgram = FALSE
  /\ stateA = Null /\ stateB = Null
  /\ simSize = Undef
  /\ simStarted = FALSE
  /\ nextTarget = 0
  /\ targetSize = [t \in Target |-> <<0, 0>>]
  /\ content = [t \in Target |-> 0]
  /\ passes = <<>>
  /\ displayed = [target |-> Null, value |-> 0]
  /\ lastSimOp = "none"
  /\ heldBefore = <<Null, Null>>
  /\ preFrame = <<Null, Null>>
  /\ diagnostics = {}
  /\ renderable \in BOOLEAN
  /\ backend = "webgpu" => renderable

\* the GPU side of the state: what allocation and drawing change
Gpu == [next |-> nextTarget, size |-> targetSize, content |-> content]

\* createFBO(gl, w, h) / device.createTexture: a new target, zero-filled
CreateTarget(g, sz) ==
  [next    |-> g.next + 1,
   size    |-> [g.size EXCEPT ![g.next + 1] = sz],
   content |-> [g.content EXCEPT ![g.next + 1] = 0]]

\* the targets the GPU holds: every target created, as neither
\* simulation() nor runComputePipeline deletes a framebuffer or a texture
Live == 1..nextTarget

\* the simulation() plugin's own state
Plug == [fboA |-> fboA, fboB |-> fboB, texA |-> texA, texB |-> texB,
         width |-> width, gpu |-> Gpu]

\* const a = createFBO(...); const b = createFBO(...); fboA = a.fb; ...
AllocBoth(ps, sz) ==
  LET g1 == CreateTarget(ps.gpu, sz)
      g2 == CreateTarget(g1, sz)
  IN [fboA |-> g1.next, texA |-> g1.next, fboB |-> g2.next, texB |-> g2.next,
      width |-> sz, gpu |-> g2]

\* simulation().resize(ctx)
ResizeOnlyA(ps, csz) ==
  LET new == ScaledSize(csz, scaleNum)
      g1  == CreateTarget(ps.gpu, new)
  IN IF new # ps.width
       THEN [ps EXCEPT !.fboA = g1.next, !.texA = g1.next, !.width = new,
                       !.gpu = g1]
       ELSE ps

PluginResize(ps, csz) ==
  LET new == ScaledSize(csz, scaleNum) IN
  IF new # ps.width THEN AllocBoth(ps, new) ELSE ps

\* simulation().init(ctx), the allocation part
InitAtCanvasSize(ps, csz) == AllocBoth(ps, csz)

PluginInit(ps, csz) == AllocBoth(ps, ScaledSize(csz, scaleNum))

\* [fboA, fboB] = [fboB, fboA]; [texA, texB] = [texB, texA]
SwapFboOnly(ps) == [ps EXCEPT !.fboA = ps.fboB, !.fboB = ps.fboA]

SwapTexOnly(ps) == [ps EXCEPT !.texA = ps.texB, !.texB = ps.texA]

Swap(ps) ==
  [ps EXCEPT !.fboA = ps.fboB, !.fboB = ps.fboA,
             !.texA = ps.texB, !.texB = ps.texA]

\* gl.drawArrays with fb bound, sampling tex: the framebuffer of an RGBA16F
\* texture is complete only with EXT_color_buffer_float; drawing into an
\* incomplete framebuffer raises INVALID_FRAMEBUFFER_OPERATION and writes
\* nothing
Draw(ps, tex, fb) ==
  IF renderable
    THEN [ps EXCEPT !.gpu.content[fb] = Step(ps.gpu.content[tex])]
    ELSE ps

\* one iteration of the for loop of simulation().render(ctx): draw into fboB
\* sampling texA, then swap
Iterate(ps) == Swap(Draw(ps, ps.texA, ps.fboB))

\* the for loop: n iterations; r.log lists <<target sampled, target drawn
\* into, value sampled, value the target drawn into holds after the pass>>
RECURSIVE RunIterations(_, _)
RunIterations(r, n) ==
  IF n = 0 THEN r
  ELSE RunIterations(
         IF simProgram
           THEN [ps  |-> Iterate(r.ps),
                 log |-> Append(r.log,
                                <<r.ps.texA, r.ps.fboB,
                                  r.ps.gpu.content[r.ps.texA],
                                  Iterate(r.ps).gpu.content[r.ps.fboB]>>)]
           ELSE r,
         n - 1)

\* the display pass of simulation().render(ctx): with a display program,
\* draw to the screen sampling texA; prev is what was displayed before
DisplayNeedsSimulate(ps, prev) ==
  IF renderProgram /\ simProgram
    THEN [target |-> ps.texA, value |-> ps.gpu.content[ps.texA]]
    ELSE prev

Display(ps, prev) ==
  IF renderProgram
    THEN [target |-> ps.texA, value |-> ps.gpu.content[ps.texA]]
    ELSE prev

\* the plugin state written back
SetPlug(ps) ==
  /\ fboA' = ps.fboA /\ fboB' = ps.fboB
  /\ texA' = ps.texA /\ texB' = ps.texB
  /\ width' = ps.width
  /\ nextTarget' = ps.gpu.next
  /\ targetSize' = ps.gpu.size
  /\ content' = ps.gpu.content

\* flow.go() as the simulation plugin sees it: resize() calls the plugin's
\* resize hook, then the plugin's init hook; the two programs compile or not
SimGo(csz, simOk, renderOk) ==
  /\ UNCHANGED <<sceneVars, flowVars, assetVars>>
  /\ backend = "webgl"
  /\ ~simStarted
  /\ nextTarget + 4 <= MaxTargets
  /\ canvasSize' = csz
  /\ SetPlug(PluginInit(PluginResize(Plug, csz), csz))
  /\ simProgram' = simOk
  /\ renderProgram' = renderOk
  /\ simStarted' = TRUE
  /\ passes' = <<>>
  /\ lastSimOp' = "go"
  /\ diagnostics' = {st \in {"simulate", "display"} :
                       \/ st = "simulate" /\ ~simOk
                       \/ st = "display" /\ ~renderOk}
  /\ UNCHANGED <<backend, scaleNum, iterations, stateA, stateB, simSize,
                 displayed, heldBefore, preFrame, renderable>>

\* window resize event under flow: resize() calls the plugin's resize hook
SimResizeEvent(csz) ==
  /\ UNCHANGED <<sceneVars, flowVars, assetVars>>
  /\ backend = "webgl"
  /\ simStarted
  /\ nextTarget + 2 <= MaxTargets
  /\ canvasSize' = csz
  /\ SetPlug(PluginResize(Plug, csz))
  /\ passes' = <<>>
  /\ lastSimOp' = "resize"
  /\ heldBefore' = <<texA, texB>>
  /\ UNCHANGED <<backend, scaleNum, iterations, simProgram, renderProgram,
                 stateA, stateB, simSize, simStarted, displayed, preFrame,
                 diagnostics, renderable>>

\* a frame of flow's loop: simulation().render(ctx)
SimFrame ==
  /\ UNCHANGED <<sceneVars, flowVars, assetVars>>
  /\ backend = "webgl"
  /\ simStarted
  /\ content[texA] + iterations <= MaxCount
  /\ LET r == RunIterations([ps |-> Plug, log |-> <<>>], iterations) IN
       /\ SetPlug(r.ps)
       /\ passes' = r.log
       /\ displayed' = Display(r.ps, displayed)
  /\ lastSimOp' = "frame"
  /\ preFrame' = <<texA, fboB>>
  /\ UNCHANGED <<backend, scaleNum, iterations, canvasSize, simProgram,
                 renderProgram, stateA, stateB, simSize, simStarted,
                 heldBefore, diagnostics, renderable>>

\* runComputePipeline: the resize closure
GpuResize(g, a, b, csz) ==
  LET g1 == CreateTarget(g, ScaledSize(csz, scaleNum))
      g2 == CreateTarget(g1, ScaledSize(csz, scaleNum))
  IN [stateA |-> g1.next, stateB |-> g2.next, gpu |-> g2]

SetGpu(r, csz) ==
  /\ stateA' = r.stateA
  /\ stateB' = r.stateB
  /\ simSize' = ScaledSize(csz, scaleNum)
  /\ canvasSize' = csz
  /\ nextTarget' = r.gpu.next
  /\ targetSize' = r.gpu.size
  /\ content' = r.gpu.content

\* gpuFlow.go() with simulate code: runComputePipeline up to the first
\* requestAnimationFrame
GpuGo(csz) ==
  /\ UNCHANGED <<sceneVars, flowVars, assetVars>>
  /\ backend = "webgpu"
  /\ ~simStarted
  /\ nextTarget + 2 <= MaxTargets
  /\ SetGpu(GpuResize(Gpu, stateA, stateB, csz), csz)
  /\ simStarted' = TRUE
  /\ passes' = <<>>
  /\ lastSimOp' = "go"
  /\ UNCHANGED <<backend, scaleNum, iterations, fboA, fboB, texA, texB, width,
                 simProgram, renderProgram, displayed, heldBefore, preFrame,
                 diagnostics, renderable>>

\* window resize event: the resize closure of runComputePipeline
GpuResizeEvent(csz) ==
  /\ UNCHANGED <<sceneVars, flowVars, assetVars>>
  /\ backend = "webgpu"
  /\ simStarted
  /\ nextTarget + 2 <= MaxTargets
  /\ SetGpu(GpuResize(Gpu, stateA, stateB, csz), csz)
  /\ passes' = <<>>
  /\ lastSimOp' = "resize"
  /\ heldBefore' = <<stateA, stateB>>
  /\ UNCHANGED <<backend, scaleNum, iterations, fboA, fboB, texA, texB, width,
                 simProgram, renderProgram, simStarted, displayed, preFrame,
                 diagnostics, renderable>>

\* loop of runComputePipeline: compute pass from stateA into stateB, render
\* pass sampling stateB, then [stateA, stateB] = [stateB, stateA]
GpuFrame ==
  /\ UNCHANGED <<sceneVars, flowVars, assetVars>>
  /\ backend = "webgpu"
  /\ simStarted
  /\ content[stateA] + 1 <= MaxCount
  /\ content' = [content EXCEPT ![stateB] = Step(content[stateA])]
  /\ passes' = << <<stateA, stateB, content[stateA], content'[stateB]>> >>
  /\ displayed' = [target |-> stateB, value |-> content'[stateB]]
  /\ stateA' = stateB
  /\ stateB' = stateA
  /\ lastSimOp' = "frame"
  /\ preFrame' = <<stateA, stateB>>
  /\ UNCHANGED <<backend, scaleNum, iterations, canvasSize, fboA, fboB, texA,
                 texB, width, simProgram, renderProgram, simSize, simStarted,
                 nextTarget, targetSize, heldBefore, diagnostics, renderable>>

NextSim ==
  \/ \E csz \in CanvasSizes, simOk \in BOOLEAN, renderOk \in BOOLEAN :
       SimGo(csz, simOk, renderOk)
  \/ \E csz \in CanvasSizes : SimResizeEvent(csz)
  \/ SimFrame
  \/ \E csz \in CanvasSizes : GpuGo(csz)
  \/ \E csz \in CanvasSizes : GpuResizeEvent(csz)
  \/ GpuFrame

\* ------------------------------------------------------------------------
\* Ping-pong simulation: claims
\* ------------------------------------------------------------------------
\* the target in the read role (sampled next) and in the write role
ReadTarget == IF backend = "webgl" THEN texA ELSE stateA
WriteTarget == IF backend = "webgl" THEN fboB ELSE stateB

\* both targets are new allocations that hold the reset value
BothFresh ==
  /\ ReadTarget # WriteTarget
  /\ ReadTarget \notin Range(heldBefore)
  /\ WriteTarget \notin Range(heldBefore)
  /\ content[ReadTarget] = 0
  /\ content[WriteTarget] = 0

\* C8 as stated: every resize event reallocates both targets, which then
\* read as the reset value.
C8_EveryResizeDiscards == lastSimOp = "resize" => BothFresh

\* C8 as amended: a resize event reallocates both targets (reset value, no
\* earlier data) when the scaled size differs from the size of the targets
\* held, and in the WebGPU pipeline always; a resize event of the WebGL
\* plugin that leaves the scaled size unchanged keeps both targets.
C8_ResizeDiscardsOnSizeChange ==
  lastSimOp = "resize" =>
    IF backend = "webgpu"
       \/ targetSize[heldBefore[1]] # ScaledSize(canvasSize, scaleNum)
      THEN BothFresh
      ELSE <<texA, texB>> = heldBefore

\* a resize to another scaled size, after frames had written the targets
C8_Witness ==
  /\ lastSimOp = "resize"
  /\ content[heldBefore[1]] > 0
  /\ targetSize[heldBefore[1]] # ScaledSize(canvasSize, scaleNum)
  /\ ReadTarget \notin Range(heldBefore)

\* C9: every simulate pass samples one target and draws into the other, the
\* roles are exchanged after each pass, and the display pass samples the
\* target the last simulate pass drew into.
C9_PingPong ==
  lastSimOp = "frame" =>
    /\ \A i \in 1..Len(passes) : passes[i][1] # passes[i][2]
    /\ \A i \in 1..(Len(passes) - 1) :
         /\ passes[i + 1][1] = passes[i][2]
         /\ passes[i + 1][2] = passes[i][1]
    /\ Len(passes) > 0 =>
         /\ ReadTarget = passes[Len(passes)][2]
         /\ WriteTarget = passes[Len(passes)][1]
         /\ (renderProgram \/ backend = "webgpu") =>
              /\ displayed.target = passes[Len(passes)][2]
              /\ displayed.value = content[passes[Len(passes)][2]]

\* a frame of two simulate passes followed by the display pass
C9_Witness ==
  /\ lastSimOp = "frame"
  /\ Len(passes) = 2
  /\ displayed.target = passes[2][2]
  /\ displayed.value >= 2

\* C22: swap is a pure exchange of roles: applied twice it restores the read
\* and write assignment, and after the n simulate iterations of a frame the
\* read role is held by the target that had it before the frame when n is
\* even, and by the target that had the write role when n is odd (the write
\* role by the other one).
C22_SwapRoleExchange ==
  /\ Swap(Swap(Plug)) = Plug
  /\ lastSimOp = "frame" =>
       LET n == Len(passes) IN
       /\ ReadTarget = IF n % 2 = 0 THEN preFrame[1] ELSE preFrame[2]
       /\ WriteTarget = IF n % 2 = 0 THEN preFrame[2] ELSE preFrame[1]

\* a frame of two simulate iterations has run on allocated targets
C22_Witness ==
  /\ lastSimOp = "frame"
  /\ Len(passes) = 2
  /\ preFrame[1] # Null
  /\ preFrame[1] # preFrame[2]
  /\ ReadTarget = preFrame[1]

\* C25: a simulate or display program that fails to build is reported as a
\* diagnostic and disables only its own stage: every later frame still runs
\* to its end, a frame without simulate program runs no simulate pass but
\* still runs the display pass, and a frame without display program still
\* runs all its simulate passes.
C25_FailedStageOnlyDisabled ==
  (backend = "webgl" /\ simStarted) =>
    /\ ~simProgram <=> "simulate" \in diagnostics
    /\ ~renderProgram <=> "display" \in diagnostics
    /\ lastSimOp = "frame" =>
         /\ Len(passes) = IF simProgram THEN iterations ELSE 0
         /\ IF renderProgram
              THEN /\ displayed.target = ReadTarget
                   /\ displayed.value = content[ReadTarget]
              ELSE displayed.target = Null

\* a frame has run its display pass although the simulate program failed
\* to build
C25_Witness ==
  /\ lastSimOp = "frame"
  /\ diagnostics = {"simulate"}
  /\ passes = <<>>
  /\ displayed.target = texA
  /\ texA # Null

\* C27: a failure to allocate the offscreen targets during init is fatal to
\* the engine: no simulate pass and no display pass ever runs on targets
\* whose allocation failed.
C27_AllocationFailureFatal ==
  ~renderable => (passes = <<>> /\ displayed.target = Null)

\* C32: init allocates two distinct targets A and B of the size
\* floor(displayWidth x factor) x floor(displayHeight x factor), A in the read
\* role and B in the write role; after init and after every resize both
\* targets have the size floor(current displayWidth x factor) x
\* floor(current displayHeight x factor), the viewport of the simulate pass.
C32_TargetSizes ==
  simStarted =>
    /\ ReadTarget # WriteTarget
    /\ ReadTarget \in Live /\ WriteTarget \in Live
    /\ targetSize[ReadTarget] = ScaledSize(canvasSize, scaleNum)
    /\ targetSize[WriteTarget] = ScaledSize(canvasSize, scaleNum)
    /\ backend = "webgl" =>
         /\ width = ScaledSize(canvasSize, scaleNum)
         /\ fboA = texA /\ fboB = texB
    /\ lastSimOp = "go" =>
         (ReadTarget = nextTarget - 1 /\ WriteTarget = nextTarget)

\* a resize event of the plugin at scale 0.5 to a canvas size whose scaled
\* size differs from the size of the targets held
C32_Witness ==
  /\ backend = "webgl"
  /\ lastSimOp = "resize"
  /\ scaleNum = 1
  /\ heldBefore[1] # Null
  /\ targetSize[heldBefore[1]] # ScaledSize(canvasSize, scaleNum)
  /\ targetSize[texA] = ScaledSize(canvasSize, scaleNum)
  /\ canvasSize # ScaledSize(canvasSize, scaleNum)

\* C24: resize destroys both existing targets before it reallocates: after
\* any number of resize events exactly two offscreen targets are live, the
\* two in the read and the write role, and every earlier one is released.
C24_TwoLiveTargets ==
  lastSimOp = "resize" =>
    /\ Cardinality(Live) = 2
    /\ Live = {ReadTarget, WriteTarget}

\* C23: with iterations = k and both programs built, one rendered frame
\* applies the simulate step k times in succession, each application
\* reading the result of the one before, and the display pass observes the
\* k-th result: with iterations = 3 and the counter starting from 0 the
\* display pass observes 3.
C23_IterationsChain ==
  (lastSimOp = "frame" /\ (backend = "webgpu" \/ (simProgram /\ renderProgram))) =>
    /\ Len(passes) = iterations
    /\ \A i \in 1..Len(passes) : passes[i][4] = Step(passes[i][3])
    /\ \A i \in 1..(Len(passes) - 1) : passes[i + 1][3] = passes[i][4]
    /\ displayed.value = passes[Len(passes)][4]
    /\ (iterations = 3 /\ passes[1][3] = 0) => displayed.value = 3

\* ------------------------------------------------------------------------
\* ModelLoader: load, clear
\* ------------------------------------------------------------------------
Urls == {"a.obj", "b.obj"}

\* JSON.stringify(options) of the options passed: none, { meshMaterials: true }
OptionTexts == {"{}", "{\"meshMaterials\":true}"}

\* const cacheKey = url + JSON.stringify(options)
CacheKey(url, optionText) == url \o optionText

CacheKeys == {CacheKey(u, o) : u \in Urls, o \in OptionTexts}

InitLoader ==
  /\ cache = [k \in CacheKeys |-> Null]
  /\ loadCalls = <<>>
  /\ loadModelCalls = [k \in CacheKeys |-> 0]
  /\ nextModel = 0
  /\ clears = 0

\* loader.load(url, options) up to its first await: a cache hit resolves to
\* the cached model; otherwise loadModel(url, ...) is called and awaited
Load(url, optionText) ==
  /\ UNCHANGED <<sceneVars, flowVars, simVars, objVars, sceneLoopVars, stageVars, gpuVars>>
  /\ Len(loadCalls) < MaxLoadCalls
  /\ LET k == CacheKey(url, optionText) IN
       IF cache[k] # Null
         THEN /\ loadCalls' = Append(loadCalls,
                  [key |-> k, at |-> "done", model |-> cache[k], epoch |-> clears])
              /\ UNCHANGED loadModelCalls
         ELSE /\ loadCalls' = Append(loadCalls,
                  [key |-> k, at |-> "loadModel", model |-> Null, epoch |-> clears])
              /\ loadModelCalls' = [loadModelCalls EXCEPT ![k] = @ + 1]
  /\ UNCHANGED <<cache, nextModel, clears>>

\* the loadModel promise of call c resolves: _loadTextures is called and
\* awaited
ModelLoaded(c) ==
  /\ UNCHANGED <<sceneVars, flowVars, simVars, objVars, sceneLoopVars, stageVars, gpuVars>>
  /\ c \in 1..Len(loadCalls)
  /\ loadCalls[c].at = "loadModel"
  /\ loadCalls' = [loadCalls EXCEPT ![c].at = "loadTextures"]
  /\ UNCHANGED <<cache, loadModelCalls, nextModel, clears>>

\* the _loadTextures promise of call c resolves: enrichedModel is built,
\* stored under the key and returned
TexturesLoaded(c) ==
  /\ UNCHANGED <<sceneVars, flowVars, simVars, objVars, sceneLoopVars, stageVars, gpuVars>>
  /\ c \in 1..Len(loadCalls)
  /\ loadCalls[c].at = "loadTextures"
  /\ nextModel' = nextModel + 1
  /\ cache' = [cache EXCEPT ![loadCalls[c].key] = nextModel + 1]
  /\ loadCalls' = [loadCalls EXCEPT ![c].at = "done", ![c].model = nextModel + 1]
  /\ UNCHANGED <<loadModelCalls, clears>>

\* loader.clear()
Clear ==
  /\ UNCHANGED <<sceneVars, flowVars, simVars, objVars, sceneLoopVars, stageVars, gpuVars>>
  /\ clears < MaxClears
  /\ clears' = clears + 1
  /\ cache' = [k \in CacheKeys |-> Null]
  /\ loadModelCalls' = [k \in CacheKeys |-> 0]
  /\ UNCHANGED <<loadCalls, nextModel>>

NextLoader ==
  \/ \E u \in Urls, o \in OptionTexts : Load(u, o)
  \/ \E c \in 1..MaxLoadCalls : ModelLoaded(c)
  \/ \E c \in 1..MaxLoadCalls : TexturesLoaded(c)
  \/ Clear

\* C28: load caches by url and options: of the load calls made with the
\* same url and options since construction or the last clear(), calls made
\* before an earlier one resolved included, at most one loads the underlying
\* model and all that have resolved resolved to the same model object.
C28_LoadedAtMostOnce ==
  /\ \A k \in CacheKeys : loadModelCalls[k] <= 1
  /\ \A c, d \in 1..Len(loadCalls) :
       ( /\ loadCalls[c].key = loadCalls[d].key
         /\ loadCalls[c].epoch = clears /\ loadCalls[d].epoch = clears
         /\ loadCalls[c].at = "done" /\ loadCalls[d].at = "done" )
       => loadCalls[c].model = loadCalls[d].model

\* ------------------------------------------------------------------------
\* parseOBJ / loadOBJ: one step per line of the OBJ text
\* ------------------------------------------------------------------------
\* the position index written in a face-vertex token: 1-based, or negative
\* (relative to the end of the vertex list)
VertexRefs == {0 - 1, 1, 2, 3}

\* the token formats of a face line: "v" and "v/vt/vn" (vt = vn = v)
Formats == {"v", "v/vt/vn"}

\* the f lines: 3..MaxFaceLen tokens of one format
Faces == [vs : UNION {[1..k -> VertexRefs] : k \in 3..MaxFaceLen},
          format : Formats]

\* const faceVertices = parts.slice(1): the tokens of the line
FaceVertices(face) ==
  [i \in 1..Len(face.vs) |-> [v |-> face.vs[i], format |-> face.format]]

\* vert.split('/').map(v => v ? parseInt(v) - 1 : -1)
SplitToken(tok) ==
  IF tok.format = "v"
    THEN [vIdx |-> tok.v - 1, vtIdx |-> 0 - 1, vnIdx |-> 0 - 1]
    ELSE [vIdx |-> tok.v - 1, vtIdx |-> tok.v - 1, vnIdx |-> tok.v - 1]

InitObj ==
  /\ tempPositions = 0 /\ tempUvs = 0 /\ tempNormals = 0
  /\ vertexMap = <<>>
  /\ positions = <<>> /\ uvs = <<>> /\ normals = <<>>
  /\ indices = <<>>
  /\ faceLog = <<>>

\* the arrays being built
Geom == [vertexMap |-> vertexMap, positions |-> positions, uvs |-> uvs,
         normals |-> normals, indices |-> indices]

\* the body of `for (const vert of tri)`
PushVertex(g, vert) ==
  IF \E i \in 1..Len(g.vertexMap) : g.vertexMap[i] = vert
    THEN [g EXCEPT !.indices = Append(@, IndexOf(g.vertexMap, vert) - 1)]
    ELSE LET t == SplitToken(vert) IN
         [vertexMap |-> Append(g.vertexMap, vert),
          positions |-> IF t.vIdx >= 0
                          THEN g.positions \o <<t.vIdx * 3, t.vIdx * 3 + 1,
                                                t.vIdx * 3 + 2>>
                          ELSE g.positions,
          uvs       |-> IF t.vtIdx >= 0 /\ tempUvs > 0
                          THEN g.uvs \o <<t.vtIdx * 2, t.vtIdx * 2 + 1>>
                          ELSE g.uvs \o <<0 - 1, 0 - 1>>,
          normals   |-> IF t.vnIdx >= 0 /\ tempNormals > 0
                          THEN g.normals \o <<t.vnIdx * 3, t.vnIdx * 3 + 1,
                                              t.vnIdx * 3 + 2>>
                          ELSE g.normals \o <<0 - 1, 0 - 1, 0 - 1>>,
          indices   |-> Append(g.indices, Len(g.vertexMap))]

\* for (let i = 1; i < faceVertices.length - 1; i++): the triangles
\* [faceVertices[0], faceVertices[i], faceVertices[i + 1]], from i on
\* (i is 1-based here: the source's i + 1)
RECURSIVE Triangulate(_, _, _)
Triangulate(g, face, i) ==
  IF i >= Len(face) THEN g
  ELSE Triangulate(
         PushVertex(PushVertex(PushVertex(g, face[1]), face[i]), face[i + 1]),
         face, i + 1)

ObjUnchanged ==
  UNCHANGED <<sceneVars, flowVars, simVars, loaderVars, sceneLoopVars, stageVars, gpuVars>>

\* a line `v x y z`
LineV ==
  /\ ObjUnchanged
  /\ tempPositions < 3 * MaxV
  /\ tempPositions' = tempPositions + 3
  /\ UNCHANGED <<tempUvs, tempNormals, vertexMap, positions, uvs, normals,
                 indices, faceLog>>

\* a line `vn x y z`
LineVn ==
  /\ ObjUnchanged
  /\ tempNormals < 3 * MaxVt
  /\ tempNormals' = tempNormals + 3
  /\ UNCHANGED <<tempPositions, tempUvs, vertexMap, positions, uvs, normals,
                 indices, faceLog>>

\* a line `vt u v`
LineVt ==
  /\ ObjUnchanged
  /\ tempUvs < 2 * MaxVt
  /\ tempUvs' = tempUvs + 2
  /\ UNCHANGED <<tempPositions, tempNormals, vertexMap, positions, uvs,
                 normals, indices, faceLog>>

\* a line `f t1 t2 ... tk`
LineF(face) ==
  /\ ObjUnchanged
  /\ Len(faceLog) < MaxFaces
  /\ LET g == Triangulate(Geom, FaceVertices(face), 2) IN
       /\ vertexMap' = g.vertexMap
       /\ positions' = g.positions
       /\ uvs' = g.uvs
       /\ normals' = g.normals
       /\ indices' = g.indices
       /\ faceLog' = Append(faceLog, [k |-> Len(face.vs),
                                      pushed |-> Len(g.indices) - Len(indices)])
  /\ UNCHANGED <<tempPositions, tempUvs, tempNormals>>

NextObj ==
  \/ LineV
  \/ LineVn
  \/ LineVt
  \/ \E face \in Faces : LineF(face)

\* C29: the arrays parsed from OBJ text are mutually consistent: with n
\* distinct vertex combinations referenced by the faces, positions has 3n
\* entries, normals 3n, uvs 2n, every index lies in 0..n-1, and a face of k
\* vertices contributes 3(k - 2) indices.
C29_ConsistentArrays ==
  LET n == Len(vertexMap) IN
  /\ Len(positions) = 3 * n
  /\ Len(normals) = 3 * n
  /\ Len(uvs) = 2 * n
  /\ \A i \in 1..Len(indices) : indices[i] \in 0..(n - 1)
  /\ \A f \in 1..Len(faceLog) : faceLog[f].pushed = 3 * (faceLog[f].k - 2)

\* ------------------------------------------------------------------------
\* Scene.go / Scene.stop: the frame loop of Scene
\* ------------------------------------------------------------------------
InitSceneLoop ==
  /\ sceneRunning = FALSE
  /\ scenePending = FALSE
  /\ sceneLastTime = 0
  /\ sceneTime = 0
  /\ sceneDelta = 0
  /\ sceneFrame = 0
  /\ sceneGoCalls = 0
  /\ sceneRunFrames = 0
  /\ sceneGap = 0

\* the plugins given to Scene.use: a bare function, or an object with init,
\* update, render and resize hooks (camera() has init, resize and render)
SceneKinds == {"function", "hooks"}

\* plugin.hook is defined
SceneHasHook(k, hook) == k = "hooks"

\* Scene.update: for (const plugin of this._plugins) { if (typeof plugin ===
\* 'function') plugin(ctx); else if (plugin.update) plugin.update(ctx); },
\* from the i-th plugin on: the calls made
RECURSIVE SceneUpdateCalls(_, _)
SceneUpdateCalls(ps, i) ==
  IF i > Len(ps) THEN <<>>
  ELSE (IF ps[i] = "function" THEN << <<"call", i>> >>
        ELSE IF SceneHasHook(ps[i], "update") THEN << <<"update", i>> >>
        ELSE <<>>)
       \o SceneUpdateCalls(ps, i + 1)

\* Scene.render: the same loop with plugin.render
RECURSIVE SceneRenderCalls(_, _)
SceneRenderCalls(ps, i) ==
  IF i > Len(ps) THEN <<>>
  ELSE (IF ps[i] = "function" THEN << <<"call", i>> >>
        ELSE IF SceneHasHook(ps[i], "render") THEN << <<"render", i>> >>
        ELSE <<>>)
       \o SceneRenderCalls(ps, i + 1)

\* Scene._resize: for (const plugin of this._plugins) { if (plugin.resize)
\* plugin.resize(ctx); }
RECURSIVE SceneResizeCalls(_, _)
SceneResizeCalls(ps, i) ==
  IF i > Len(ps) THEN <<>>
  ELSE (IF SceneHasHook(ps[i], "resize") THEN << <<"resize", i>> >> ELSE <<>>)
       \o SceneResizeCalls(ps, i + 1)

InitStage ==
  /\ scenePlugins = <<>>
  /\ scenePluginCalls = <<>>
  /\ sceneListeners = sceneGl
  /\ sceneResizes = 0

\* scene.use(plugin): this._plugins.push(plugin)
SceneUse(k) ==
  /\ UNCHANGED <<sceneVars, flowVars, simVars, loaderVars, objVars,
                 sceneLoopVars, gpuVars>>
  /\ Len(scenePlugins) < MaxScenePlugins
  /\ scenePlugins' = Append(scenePlugins, k)
  /\ UNCHANGED <<scenePluginCalls, sceneListeners, sceneResizes>>

\* a window resize event while the listeners are attached: onResize calls
\* Scene._resize
SceneResize ==
  /\ UNCHANGED <<sceneVars, flowVars, simVars, loaderVars, objVars,
                 sceneLoopVars, gpuVars>>
  /\ sceneListeners
  /\ sceneResizes < MaxResizes
  /\ sceneResizes' = sceneResizes + 1
  /\ scenePluginCalls' = scenePluginCalls \o SceneResizeCalls(scenePlugins, 1)
  /\ UNCHANGED <<scenePlugins, sceneListeners>>

\* scene.go(): nothing when running; else a new loop closure with
\* lastTime = 0 and a first requestAnimationFrame
SceneGo ==
  /\ UNCHANGED <<sceneVars, flowVars, simVars, loaderVars, objVars, stageVars,
                 gpuVars>>
  /\ Idle
  /\ sceneGoCalls < MaxGo
  /\ sceneGoCalls' = sceneGoCalls + 1
  /\ IF sceneRunning
       THEN UNCHANGED <<sceneRunning, scenePending, sceneLastTime,
                        sceneRunFrames>>
       ELSE /\ sceneRunning' = TRUE
            /\ scenePending' = TRUE
            /\ sceneLastTime' = 0
            /\ sceneRunFrames' = 0
  /\ UNCHANGED <<sceneTime, sceneDelta, sceneFrame, sceneGap>>

\* scene.stop() while running: the pending callback is cancelled
SceneStop ==
  /\ UNCHANGED <<sceneVars, flowVars, simVars, loaderVars, objVars, stageVars,
                 gpuVars>>
  /\ Idle
  /\ sceneRunning
  /\ sceneRunning' = FALSE
  /\ scenePending' = FALSE
  /\ UNCHANGED <<sceneLastTime, sceneTime, sceneDelta, sceneFrame,
                 sceneGoCalls, sceneRunFrames, sceneGap>>

\* the host runs the pending callback of Scene.go: loop(t), with update()
\* and render() of the scene as it stands, and the next
\* requestAnimationFrame
SceneLoop ==
  /\ UNCHANGED <<sceneVars, simVars, loaderVars, objVars, gpuVars>>
  /\ Idle
  /\ scenePending
  /\ sceneRunning
  /\ now < MaxTime
  /\ now' = now + 1
  /\ sceneTime' = now'
  /\ sceneDelta' = Delta(now', sceneLastTime)
  /\ sceneGap' = now' - sceneLastTime
  /\ sceneLastTime' = now'
  /\ sceneFrame' = sceneFrame + 1
  /\ sceneRunFrames' = Min(sceneRunFrames + 1, 2)
  /\ scenePluginCalls' = scenePluginCalls \o SceneUpdateCalls(scenePlugins, 1)
                                          \o SceneRenderCalls(scenePlugins, 1)
  /\ UNCHANGED <<scenePlugins, sceneListeners, sceneResizes>>
  /\ UNCHANGED <<sceneRunning, scenePending, sceneGoCalls>>
  /\ UNCHANGED <<plugins, running, animationId, lastTime, ctxTime, ctxDelta,
                 rafQueue, firing, loopAt, initCount, frameRenders,
                 goCalls, goAt, restarted, sinceGo, stopCalled,
                 loopBeganStopped, threw, nextPlugin, kind, listening, calls,
                 lastCall, renderLog, apiCalls>>

\* the two frame loops, flow's without plugins
NextLoops ==
  \/ Go
  \/ Stop
  \/ Elapse
  \/ AnimationFrame
  \/ LoopBegin
  \/ LoopEnd
  \/ SceneGo
  \/ SceneStop
  \/ SceneLoop

NextStage ==
  \/ \E k \in SceneKinds : SceneUse(k)
  \/ SceneGo
  \/ SceneStop
  \/ SceneLoop
  \/ SceneResize

\* C36: every plugin registered on a Scene with use() has its init hook
\* invoked before its first render, update or resize hook is invoked.
C36_SceneInitFirst ==
  \A n \in 1..Len(scenePluginCalls) :
    LET c == scenePluginCalls[n] IN
    (c[1] \in {"render", "update", "resize"}
       /\ SceneHasHook(scenePlugins[c[2]], "init")) =>
      \E m \in 1..(n - 1) : scenePluginCalls[m] = <<"init", c[2]>>

\* C37: in each Scene frame a plugin registered as a bare function is called
\* exactly once, and no hook of a plugin is invoked more than once.
C37_OncePerFrame ==
  [][ (sceneFrame' = sceneFrame + 1) =>
        LET made == SubSeq(scenePluginCalls', Len(scenePluginCalls) + 1,
                           Len(scenePluginCalls'))
        IN \A i \in 1..Len(scenePlugins) :
             /\ (scenePlugins[i] = "function") => Count(made, <<"call", i>>) = 1
             /\ \A h \in {"update", "render"} : Count(made, <<h, i>>) <= 1 ]_vars

\* ------------------------------------------------------------------------
\* Scene.clear and Scene.destroy
\* ------------------------------------------------------------------------
\* the ids in the order the walk over this._objects.values() is modelled in
IdSeq == <<"a", "b">>

\* the values of the registry
Registered == {objects[i] : i \in Ids} \ {Null}

\* the registered nodes and their descendants
InScene == UNION {Subtree(children, o) : o \in Registered}

\* for (const obj of this._objects.values()) obj.destroy(this.ctx), from
\* the j-th id on: the destroy calls made, in call order
RECURSIVE ClearCalls(_, _, _)
ClearCalls(ch, objs, j) ==
  IF j > Len(IdSeq) THEN <<>>
  ELSE (IF objs[IdSeq[j]] # Null THEN DestroyCalls(ch, objs[IdSeq[j]]) ELSE <<>>)
       \o ClearCalls(ch, objs, j + 1)

\* no node that clear() reaches is its own descendant: the recursion of
\* SceneObject.destroy comes to an end
ClearReturns ==
  \A o \in InScene : o \notin Reach(children, Range(children[o]), MaxObjs)

\* the statements of Scene.clear()
ClearEffect ==
  /\ destroyLog' = ClearCalls(children, objects, 1)
  /\ objects' = [i \in Ids |-> Null]
  /\ rootObjects' = <<>>
  /\ UNCHANGED <<nextObj, objId, parent, children>>

\* scene.clear()
SceneClear ==
  /\ SceneStep
  /\ UNCHANGED <<flowVars, simVars, renderVars, assetVars>>
  /\ ClearReturns
  /\ ClearEffect
  /\ lastOp' = [op |-> "clear", obj |-> Null, subtree |-> InScene]

\* scene.destroy(): stop(), clear(), _cleanupListeners(), then
\* `for (const mat of this.materials)`: Scene has no materials property, and
\* iterating undefined raises a TypeError
SceneDestroy ==
  /\ SceneStep
  /\ UNCHANGED <<flowVars, simVars, loaderVars, objVars, gpuVars>>
  /\ ClearReturns
  /\ sceneRunning' = FALSE
  /\ scenePending' = FALSE
  /\ ClearEffect
  /\ sceneListeners' = FALSE
  /\ typeErrors' = typeErrors + 1
  /\ lastOp' = [op |-> "destroy", obj |-> Null, subtree |-> InScene]
  /\ UNCHANGED <<sceneLastTime, sceneTime, sceneDelta, sceneFrame,
                 sceneGoCalls, sceneRunFrames, sceneGap>>
  /\ UNCHANGED <<scenePlugins, scenePluginCalls, sceneResizes>>
  /\ UNCHANGED <<position, visible, localMatrix, worldMatrix, visited,
                 sceneGl, initialized, nodeInits>>

NextTeardown ==
  \/ \E id \in Ids, pid \in Ids \cup {NoId} : Add(id, pid)
  \/ \E p \in Obj, c \in Obj : AddChild(p, c)
  \/ SceneGo
  \/ SceneStop
  \/ SceneClear
  \/ SceneDestroy

\* C38: Scene.clear() calls SceneObject.destroy exactly once for every node
\* in the scene, whatever the shape of the hierarchy, and leaves the registry
\* and the root list empty.
C38_ClearDestroysOnce ==
  lastOp.op = "clear" =>
    /\ \A o \in lastOp.subtree : Count(destroyLog, o) = 1
    /\ Registered = {}
    /\ rootObjects = <<>>

\* C39: Scene.destroy() on a successfully constructed scene, running or not,
\* returns normally: it raises nothing, and the loop is stopped, the nodes
\* are cleared and the listeners are removed.
C39_DestroyReturns ==
  [][ (lastOp'.op = "destroy" /\ sceneOps' = sceneOps + 1) =>
        /\ typeErrors' = typeErrors
        /\ ~sceneRunning' /\ ~scenePending'
        /\ ~sceneListeners'
        /\ \A i \in Ids : objects'[i] = Null ]_vars

\* ------------------------------------------------------------------------
\* gpuFlow: async go(), stop() and the loop of runComputePipeline
\* ------------------------------------------------------------------------
InitGpu ==
  /\ gpuAt = "idle"
  /\ gpuRunning = FALSE
  /\ gpuLoops = 0
  /\ gpuFrames = 0
  /\ gpuGoCalls = 0
  /\ gpuStopped = FALSE

OnlyGpu == UNCHANGED <<sceneVars, flowVars, simVars, loaderVars, objVars,
                              sceneLoopVars, stageVars>>

\* builder.go() is called: without navigator.gpu it returns null at once,
\* else it runs up to `await navigator.gpu.requestAdapter()`
GpuFlowGo(hasGpu) ==
  /\ OnlyGpu
  /\ gpuAt \in {"idle", "returned"}
  /\ gpuGoCalls < MaxGo
  /\ gpuGoCalls' = gpuGoCalls + 1
  /\ gpuAt' = IF hasGpu THEN "adapter" ELSE "returned"
  /\ gpuStopped' = FALSE
  /\ UNCHANGED <<gpuRunning, gpuLoops, gpuFrames>>

\* requestAdapter() resolves: no adapter returns null; else go() runs up to
\* `await adapter.requestDevice()`
GpuFlowAdapter(found) ==
  /\ OnlyGpu
  /\ gpuAt = "adapter"
  /\ gpuAt' = IF found THEN "device" ELSE "returned"
  /\ UNCHANGED <<gpuRunning, gpuLoops, gpuFrames, gpuGoCalls, gpuStopped>>

\* requestDevice() settles: a rejection is caught and go() returns null; else
\* running = true and runComputePipeline() runs to its end, which has no
\* await of its own: pipelines, textures, requestAnimationFrame(loop); go()
\* then waits on the promise runComputePipeline returned
GpuFlowDevice(granted) ==
  /\ OnlyGpu
  /\ gpuAt = "device"
  /\ IF granted
       THEN /\ gpuRunning' = TRUE
            /\ gpuLoops' = gpuLoops + 1
            /\ gpuAt' = "pipeline"
       ELSE /\ gpuAt' = "returned"
            /\ UNCHANGED <<gpuRunning, gpuLoops>>
  /\ UNCHANGED <<gpuFrames, gpuGoCalls, gpuStopped>>

\* `await runComputePipeline()` resumes: return builder
GpuFlowPipeline ==
  /\ OnlyGpu
  /\ gpuAt = "pipeline"
  /\ gpuAt' = "returned"
  /\ UNCHANGED <<gpuRunning, gpuLoops, gpuFrames, gpuGoCalls, gpuStopped>>

\* builder.stop(): running = false
GpuFlowStop ==
  /\ OnlyGpu
  /\ gpuRunning' = FALSE
  /\ gpuStopped' = TRUE
  /\ UNCHANGED <<gpuAt, gpuLoops, gpuFrames, gpuGoCalls>>

\* the host runs a requested loop callback: nothing when running is false;
\* else the compute pass, the render pass, the swap and the next
\* requestAnimationFrame(loop)
GpuFlowLoop ==
  /\ OnlyGpu
  /\ gpuLoops >= 1
  /\ IF gpuRunning
       THEN /\ gpuFrames < MaxGpuFrames
            /\ gpuFrames' = gpuFrames + 1
            /\ UNCHANGED gpuLoops
       ELSE /\ gpuLoops' = gpuLoops - 1
            /\ UNCHANGED gpuFrames
  /\ UNCHANGED <<gpuAt, gpuRunning, gpuGoCalls, gpuStopped>>

NextGpu ==
  \/ \E hasGpu \in BOOLEAN : GpuFlowGo(hasGpu)
  \/ \E found \in BOOLEAN : GpuFlowAdapter(found)
  \/ \E granted \in BOOLEAN : GpuFlowDevice(granted)
  \/ GpuFlowPipeline
  \/ GpuFlowStop
  \/ GpuFlowLoop

\* C40: once stop() has been called and go() has not been called again
\* afterwards, no frame is rendered, for any interleaving of stop() with the
\* asynchronous go(), stop() called while go() is still at one of its awaits
\* included.
C40_NoFrameAfterStop ==
  [][ (gpuFrames' = gpuFrames + 1) => ~gpuStopped ]_vars

\* ------------------------------------------------------------------------
\* Specifications
\* ------------------------------------------------------------------------
Init ==
  InitScene /\ InitFlow /\ InitSim /\ InitLoader /\ InitObj /\ InitSceneLoop
    /\ InitStage /\ InitGpu /\ sceneGl

\* construction, simulation() with its default options
InitDefaults ==
  /\ InitScene
  /\ InitFlow
  /\ InitSim
  /\ InitLoader
  /\ InitObj
  /\ InitSceneLoop
  /\ InitStage
  /\ InitGpu
  /\ backend = "webgl" /\ scaleNum = 1 /\ iterations = 1 /\ renderable
  /\ sceneGl

\* construction on a host with or without WebGL2
InitDevice ==
  /\ InitScene
  /\ InitFlow
  /\ InitSim
  /\ InitLoader
  /\ InitObj
  /\ InitSceneLoop
  /\ InitStage
  /\ InitGpu
  /\ backend = "webgl" /\ scaleNum = 1 /\ iterations = 1 /\ renderable

SpecScene == InitDefaults /\ [][NextScene]_vars
SpecRender == InitDefaults /\ [][NextRender]_vars
SpecDevice == InitDevice /\ [][NextRender]_vars

SpecFlow == InitDefaults /\ [][NextFlow]_vars

SpecPlugins == InitDefaults /\ [][NextPlugins]_vars
SpecSim == Init /\ [][NextSim]_vars
SpecLoader == InitDefaults /\ [][NextLoader]_vars
SpecObj == InitDefaults /\ [][NextObj]_vars
SpecLoops == InitDefaults /\ [][NextLoops]_vars
SpecStage == InitDefaults /\ [][NextStage]_vars
SpecTeardown == InitDefaults /\ [][NextTeardown]_vars
SpecGpu == InitDefaults /\ [][NextGpu]_vars

=============================================================================
